---------------------------- MODULE Spec2Model ----------------------------
(***************************************************************************)
(* A model of the stimulus-log table parser (rlx2nix/stimuli.py), of the   *)
(* run segmentation (StimuliDat.scan_file) and of the timeline             *)
(* reconstruction (Converter.convert_repro_runs in rlx2nix/converter.py).  *)
(*                                                                         *)
(* Lines of text are TLA+ strings, i.e. sequences of characters, and the   *)
(* Python string operations the parser uses (strip, startswith, find,      *)
(* re.split on runs of two or more blanks, int) are computed on them       *)
(* character by character.  A line is kept without its line terminator:    *)
(* every place of the code that looks at a line either strips it first or  *)
(* only looks at its beginning.                                            *)
(*                                                                         *)
(* Times are integers counted in milliseconds; a number read from a table  *)
(* is kept as the thousandfold of its value.                               *)
(***************************************************************************)
EXTENDS Integers, Sequences, FiniteSets, TLC

VARIABLES
    lines,          \* the line sequence handed to the parser
    start_index,    \* table_parser's start_index argument
    tp_pc,          \* position inside table_parser
    hdr_start,      \* find_header: start
    hdr_end,        \* find_header: end - 1
    table,          \* the Table's columns, flattened in group/subgroup/column order
    columns,        \* read_tabledata: columns (index into table, 0 for None)
    dtypes,         \* read_tabledata: dtypes
    end_index,      \* read_tabledata: end_index; then table_parser's first result
    tp_result,      \* "none", "valid", "invalid" or "raised"
    stimuli_runs,   \* StimuliDat.repro_runs as the converter reads them
    sample_interval,\* repro_runs: sample_interval, in milliseconds
    rr_pc,          \* position inside convert_repro_runs
    rr_i,           \* the loop index i of the pass the converter is in
    counter,        \* repro_runs: counter
    repro_names,    \* repro_runs: repro_names
    repro_starts,   \* repro_runs: repro_starts
    repro_ends,     \* repro_runs: repro_ends
    repro_durations,\* repro_runs: repro_durations
    repro_metadata, \* repro_runs: repro_metadata (the index of the run it belongs to)
    repro_tags,     \* store_repro_runs: the tags created, in order
    sc_pc,          \* position inside StimuliDat.scan_file
    sc_end,         \* scan_file: end
    sc_general,     \* StimuliDat._general_metadata
    sc_runs,        \* StimuliDat._repro_runs while the file is scanned
    sc_exists,      \* os.path.exists(filename) of the stimulus log
    cf_exists,      \* os.path.exists(filename) of the configuration file
    cf_pc,          \* position inside ConfigFile.load
    cf_format,      \* load: format
    cf_indent,      \* load: indentation
    cf_i,           \* read_config_file: the number of lines read
    cf_props,       \* the properties of ConfigFile._root
    cf_sections,    \* the sections below ConfigFile._root, in order of creation
    cf_current,     \* read_config_file: current_section (0 for the root)
    cf_level,       \* read_config_file: current_level
    vp_pc,          \* position of the value parser
    vp_token,       \* the text of the value handed to parse_value
    vp_unit,        \* the unit that follows it in the token
    vp_value,       \* the result of parse_value
    vp_text,        \* the text str() gives for the number of the result
    vp_again        \* the result of parse_value for that text

tableVars == <<lines, start_index, tp_pc, hdr_start, hdr_end, table, columns,
               dtypes, end_index, tp_result>>

runVars == <<stimuli_runs, sample_interval, rr_pc, rr_i, counter, repro_names,
             repro_starts, repro_ends, repro_durations, repro_metadata,
             repro_tags>>

scanVars == <<sc_pc, sc_end, sc_general, sc_runs, sc_exists>>

configVars == <<cf_exists, cf_pc, cf_format, cf_indent, cf_i, cf_props,
                cf_sections, cf_current, cf_level>>

valueVars == <<vp_pc, vp_token, vp_unit, vp_value, vp_text, vp_again>>

vars == <<tableVars, runVars, scanVars, configVars, valueVars>>

\* the parts of the state an action of one component leaves alone
TableIdle ==
    /\ start_index = 0 /\ tp_pc = "idle" /\ hdr_start = 0 /\ hdr_end = 0
    /\ table = <<>> /\ columns = <<>> /\ dtypes = <<>> /\ end_index = 0
    /\ tp_result = "none"

RunsIdle ==
    /\ stimuli_runs = <<>> /\ sample_interval = 0 /\ rr_pc = "idle" /\ rr_i = 0
    /\ counter = <<>> /\ repro_names = <<>> /\ repro_starts = <<>>
    /\ repro_ends = <<>> /\ repro_durations = <<>> /\ repro_metadata = <<>>
    /\ repro_tags = <<>>

ScanIdle ==
    /\ sc_pc = "idle" /\ sc_end = 0 /\ sc_general = <<>> /\ sc_runs = <<>>
    /\ sc_exists = TRUE

ConfigIdle ==
    /\ cf_exists = TRUE /\ cf_pc = "idle" /\ cf_format = "old" /\ cf_indent = 0
    /\ cf_i = 0 /\ cf_props = <<>> /\ cf_sections = <<>> /\ cf_current = 0
    /\ cf_level = 0

NoValue == [kind |-> "none", text |-> "", unit |-> ""]
ValueIdle ==
    /\ vp_pc = "idle" /\ vp_token = "" /\ vp_unit = ""
    /\ vp_value = NoValue /\ vp_text = "" /\ vp_again = NoValue

-----------------------------------------------------------------------------
(* Python string primitives *)

Max(a, b) == IF a >= b THEN a ELSE b
Min(a, b) == IF a <= b THEN a ELSE b

\* s[i] for a 0-based i inside the string
CharAt(s, i) == SubSeq(s, i + 1, i + 1)

\* s[k:]
DropFirst(s, k) == IF k >= Len(s) THEN "" ELSE SubSeq(s, k + 1, Len(s))

\* str.startswith
StartsWith(s, p) == Len(s) >= Len(p) /\ SubSeq(s, 1, Len(p)) = p

RECURSIVE LStrip(_)
LStrip(s) == IF Len(s) > 0 /\ CharAt(s, 0) = " " THEN LStrip(DropFirst(s, 1)) ELSE s

RECURSIVE RStrip(_)
RStrip(s) ==
    IF Len(s) > 0 /\ CharAt(s, Len(s) - 1) = " "
    THEN RStrip(SubSeq(s, 1, Len(s) - 1)) ELSE s

\* str.strip
Strip(s) == RStrip(LStrip(s))

RECURSIVE FindFrom(_, _, _)
FindFrom(s, sub, k) ==
    IF k + Len(sub) > Len(s) THEN -1
    ELSE IF SubSeq(s, k + 1, k + Len(sub)) = sub THEN k
    ELSE FindFrom(s, sub, k + 1)

\* str.find(sub, start): a negative start counts from the end of the string
Find(s, sub, start) ==
    FindFrom(s, sub, IF start < 0 THEN Max(0, Len(s) + start) ELSE start)

\* sub in s
Contains(s, sub) == Find(s, sub, 0) >= 0

\* the 0-based index of the first non-blank at or after i (Len(s) if none)
RECURSIVE SkipBlanks(_, _)
SkipBlanks(s, i) ==
    IF i < Len(s) /\ CharAt(s, i) = " " THEN SkipBlanks(s, i + 1) ELSE i

RECURSIVE SplitWide(_, _, _, _)
SplitWide(s, i, cur, acc) ==
    IF i >= Len(s) THEN Append(acc, cur)
    ELSE IF CharAt(s, i) = " " /\ i + 1 < Len(s) /\ CharAt(s, i + 1) = " "
         THEN SplitWide(s, SkipBlanks(s, i), "", Append(acc, cur))
         ELSE SplitWide(s, i + 1, cur \o CharAt(s, i), acc)

\* re.split(r'\s{2,}', s)
Split2(s) == SplitWide(s, 0, "", <<>>)

Digits == <<"0", "1", "2", "3", "4", "5", "6", "7", "8", "9">>
IsDigit(c) == \E d \in 1..10 : Digits[d] = c
DigitVal(c) == (CHOOSE d \in 1..10 : Digits[d] = c) - 1

RECURSIVE AllDigits(_)
AllDigits(s) ==
    Len(s) = 0 \/ (IsDigit(CharAt(s, 0)) /\ AllDigits(DropFirst(s, 1)))

RECURSIVE DigitsVal(_, _)
DigitsVal(s, acc) ==
    IF Len(s) = 0 THEN acc
    ELSE DigitsVal(DropFirst(s, 1), 10 * acc + DigitVal(CharAt(s, 0)))

HasSign(s) == Len(s) > 0 /\ CharAt(s, 0) \in {"+", "-"}
Unsigned(s) == IF HasSign(s) THEN DropFirst(s, 1) ELSE s

\* int(s): [ok |-> FALSE] stands for the ValueError
ToInt(s) ==
    LET t == Strip(s)
        u == Unsigned(t)
    IN  IF Len(u) > 0 /\ AllDigits(u)
        THEN [ok |-> TRUE,
              val |-> IF StartsWith(t, "-") THEN 0 - DigitsVal(u, 0) ELSE DigitsVal(u, 0)]
        ELSE [ok |-> FALSE, val |-> 0]

-----------------------------------------------------------------------------
(* ValueType and guess_value_type of rlx2nix/util.py (imported by          *)
(* stimuli.py; the definitions are not part of the sources at hand and     *)
(* follow the value patterns of the specification, section 4.1)            *)

\* the pattern without the sign: ^\d+$
IsIntegerTextUnsigned(s) == Len(s) > 0 /\ AllDigits(s)

\* integer_number of util.py: ^[+-]?\d+$
IsIntegerText(s) == Len(Unsigned(s)) > 0 /\ AllDigits(Unsigned(s))

\* ^[+-]?\d+(\.\d*)?$
IsDecimalText(s) ==
    LET u == Unsigned(s)
        p == Find(u, ".", 0)
    IN  IF p < 0 THEN Len(u) > 0 /\ AllDigits(u)
        ELSE p > 0 /\ AllDigits(SubSeq(u, 1, p)) /\ AllDigits(DropFirst(u, p + 1))

guess_value_type(s) ==
    LET t == Strip(s)
    IN  IF IsIntegerText(t) THEN "integer"
        ELSE IF IsDecimalText(t) THEN "floating"
        ELSE "string"

-----------------------------------------------------------------------------
(* Table.table_parser: find_header *)

\* list indexing: lines[i] of a negative i counts from the end of the list,
\* and an index outside -len .. len-1 is an IndexError
ValidIndex(ls, i) == i < Len(ls) /\ i >= 0 - Len(ls)
PyAt(ls, i) == IF i >= 0 THEN ls[i + 1] ELSE ls[Len(ls) + i + 1]

\* the first index of the slice lines[start:]
SliceFrom(ls, start) == IF start < 0 THEN Max(0, Len(ls) + start) ELSE Min(start, Len(ls))

\* the for loop of find_header: the index of the first line at or after
\* from whose stripped text starts with "#Key", -1 when there is none
RECURSIVE ScanForKey(_, _)
ScanForKey(ls, from) ==
    IF from >= Len(ls) THEN -1
    ELSE IF StartsWith(Strip(ls[from + 1]), "#Key") THEN from
    ELSE ScanForKey(ls, from + 1)

\* the while loop of find_header, entered with l = lines[end]
RECURSIVE ScanHeaderEnd(_, _)
ScanHeaderEnd(ls, end) ==
    IF StartsWith(PyAt(ls, end), "#")
    THEN IF end + 1 < Len(ls) THEN ScanHeaderEnd(ls, end + 1) ELSE end + 1
    ELSE end

\* find_header(lines, start_index) without the RePro name: start counts the
\* lines passed over, beginning at start_index; raised is the IndexError of
\* l = lines[end] when the marker is the last line of the input
find_header(ls, start0) ==
    LET from  == SliceFrom(ls, start0)
        key   == ScanForKey(ls, from)
        start == start0 + (key - from)
    IN  IF key < 0 THEN [raised |-> FALSE, start |-> -1, end |-> -1]
        ELSE IF ~ValidIndex(ls, start + 1)
             THEN [raised |-> TRUE, start |-> start, end |-> -1]
        ELSE [raised |-> FALSE, start |-> start,
              end |-> ScanHeaderEnd(ls, start + 1) - 1]

-----------------------------------------------------------------------------
(* Table.table_parser: parse_header and the column hierarchy *)

\* line[1:].strip() split on runs of two or more blanks
HeaderLabels(line) == Split2(Strip(DropFirst(line, 1)))

\* parse_column_groups: col_group_indices
col_group_indices(line) ==
    LET names == HeaderLabels(line)
    IN  [i \in 1..Len(names) |-> Find(line, names[i], 0)]

\* parse_subgroups: subgroup_indices; every label but the last is searched
\* with a blank appended, from the position found for the previous label
RECURSIVE subgroup_indices(_, _, _)
subgroup_indices(line, names, n) ==
    IF n = 0 THEN <<>>
    ELSE LET prev == subgroup_indices(line, names, n - 1)
             lab  == IF n < Len(names) THEN names[n] \o " " ELSE names[n]
         IN  Append(prev, Find(line, lab, IF n = 1 THEN 0 ELSE prev[n - 1]))

\* parse_columns: colname_indices; a label is searched from one past the
\* position found for the previous label
RECURSIVE colname_indices(_, _, _)
colname_indices(line, names, n) ==
    IF n = 0 THEN <<>>
    ELSE LET prev == colname_indices(line, names, n - 1)
         IN  Append(prev, IF n = 1 THEN Find(line, names[n], 0)
                          ELSE Find(line, names[n], prev[n - 1] + 1))

\* the concatenation of a sequence of [raised, cols] results
RECURSIVE JoinResults(_, _)
JoinResults(rs, n) ==
    IF n = 0 THEN [raised |-> FALSE, cols |-> <<>>]
    ELSE LET prev == JoinResults(rs, n - 1)
         IN  [raised |-> prev.raised \/ rs[n].raised,
              cols   |-> prev.cols \o rs[n].cols]

\* Column(name, int(colnumbers[i]), coltypes[i]) for the i-th label:
\* raised is the IndexError of a short ordinal or type row, or the
\* ValueError of an ordinal that is no integer
NewColumn(names, numbers, types, i, g, sg) ==
    IF i > Len(numbers) \/ i > Len(types) \/ ~ToInt(numbers[i]).ok
    THEN [raised |-> TRUE, cols |-> <<>>]
    ELSE [raised |-> FALSE,
          cols |-> <<[name |-> names[i], number |-> ToInt(numbers[i]).val,
                      type_or_unit |-> types[i], group |-> g, subgroup |-> sg,
                      data |-> <<>>]>>]

\* parse_columns(lines, index, start_pos, end_pos, subgroup); index is the
\* 0-based index of the column-name row, g and sg number the subgroup
parse_columns(ls, index, start_pos, end_pos0, g, sg) ==
    LET colname_line == PyAt(ls, index)
        end_pos  == IF end_pos0 > 0 THEN end_pos0 ELSE Len(colname_line) + 10
        colnames == HeaderLabels(colname_line)
        indices  == colname_indices(colname_line, colnames, Len(colnames))
        coltypes == HeaderLabels(PyAt(ls, index + 1))
        colnumbers == HeaderLabels(PyAt(ls, index + 2))
        made == [i \in 1..Len(colnames) |->
                    IF indices[i] >= start_pos /\ indices[i] < end_pos
                    THEN NewColumn(colnames, colnumbers, coltypes, i, g, sg)
                    ELSE [raised |-> FALSE, cols |-> <<>>]]
    IN  JoinResults(made, Len(colnames))

\* parse_subgroups(lines, index, start_pos, end_pos, col_group)
parse_subgroups(ls, index, start_pos, end_pos0, g) ==
    LET line    == PyAt(ls, index)
        end_pos == IF end_pos0 > -1 THEN end_pos0 ELSE Len(line) + 10
        names   == HeaderLabels(line)
        indices == subgroup_indices(line, names, Len(names))
        made == [i \in 1..Len(names) |->
                    IF indices[i] >= start_pos /\ indices[i] < end_pos
                    THEN parse_columns(ls, index + 1, indices[i],
                                       IF i >= Len(indices) THEN -1 ELSE indices[i + 1] - 1,
                                       g, <<g, i>>)
                    ELSE [raised |-> FALSE, cols |-> <<>>]]
    IN  JoinResults(made, Len(names))

\* parse_column_groups(lines, index, t)
parse_column_groups(ls, index) ==
    LET line    == PyAt(ls, index)
        names   == HeaderLabels(line)
        indices == col_group_indices(line)
        made == [i \in 1..Len(names) |->
                    parse_subgroups(ls, index + 1, indices[i],
                                    IF i >= Len(indices) THEN -1 ELSE indices[i + 1] - 1,
                                    i)]
    IN  JoinResults(made, Len(names))

\* parse_header(lines, start_index, end_index); both assertions hold where
\* table_parser calls it
parse_header(ls, start, end) == parse_column_groups(ls, start + 1)

-----------------------------------------------------------------------------
(* Table.table_parser: read_tabledata *)

\* what float() accepts among the texts built from digits, sign, point and
\* letters: [+-]?(\d+(\.\d*)?|\.\d+)
IsFloatText(s) ==
    LET u == Unsigned(Strip(s))
        p == Find(u, ".", 0)
    IN  IF p < 0 THEN Len(u) > 0 /\ AllDigits(u)
        ELSE /\ Len(u) > 1
             /\ AllDigits(SubSeq(u, 1, p))
             /\ AllDigits(DropFirst(u, p + 1))

\* the value of float(s) in thousandths (three decimals are kept)
FloatMilli(s) ==
    LET t == Strip(s)
        u == Unsigned(t)
        p == Find(u, ".", 0)
        whole == IF p < 0 THEN u ELSE SubSeq(u, 1, p)
        frac  == IF p < 0 THEN "" ELSE SubSeq(DropFirst(u, p + 1) \o "000", 1, 3)
        m == 1000 * DigitsVal(whole, 0) + DigitsVal(frac, 0)
    IN  IF StartsWith(t, "-") THEN 0 - m ELSE m

\* a stored value: a text, or a number in thousandths
StrValue(d) == [kind |-> "str", text |-> d, milli |-> 0]
FloatValue(d) == [kind |-> "float", text |-> "", milli |-> FloatMilli(d)]

\* convert_data(d, dt); raised is the ValueError of float(d).  dtypes never
\* holds int, so that branch is not taken.
convert_data(d, dt) ==
    IF Contains(d, "-") \/ Len(Strip(d)) = 0
    THEN [raised |-> FALSE, val |-> StrValue(d)]
    ELSE IF dt = "float"
         THEN IF IsFloatText(d) THEN [raised |-> FALSE, val |-> FloatValue(d)]
              ELSE [raised |-> TRUE, val |-> StrValue(d)]
         ELSE [raised |-> FALSE, val |-> StrValue(d)]

\* guess_column_dtype(d)
guess_column_dtype(d) ==
    IF guess_value_type(d) \in {"integer", "floating"} THEN "float" ELSE "str"

\* a lookup by position instead of by ordinal
find_column_by_position(t, number) == IF number <= Len(t) THEN number ELSE 0

\* Table.find_column(number) over the flattened columns: the index of the
\* first column carrying the number, 0 for None
find_column(t, number) ==
    IF \E k \in 1..Len(t) : t[k].number = number
    THEN CHOOSE k \in 1..Len(t) :
            /\ t[k].number = number
            /\ \A j \in 1..(k - 1) : t[j].number # number
    ELSE 0

\* Table.column_count
column_count(t) == Len(t)

\* a row loop that leaves out the placeholder fields instead of storing them
RECURSIVE StoreRowSkippingDash(_, _, _, _, _, _)
StoreRowSkippingDash(t, cols, dts, data, first, n) ==
    IF n = 0 THEN [raised |-> FALSE, table |-> t, dtypes |-> dts]
    ELSE LET prev == StoreRowSkippingDash(t, cols, dts, data, first, n - 1)
         IN  IF prev.raised \/ n > Len(data) THEN [prev EXCEPT !.raised = TRUE]
             ELSE LET dt == IF first THEN guess_column_dtype(Strip(data[n]))
                                     ELSE prev.dtypes[n]
                      nd == IF first THEN [prev.dtypes EXCEPT ![n] = dt] ELSE prev.dtypes
                      cv == convert_data(Strip(data[n]), dt)
                  IN  IF cv.raised \/ cols[n] = 0
                      THEN [raised |-> TRUE, table |-> prev.table, dtypes |-> nd]
                      ELSE [raised |-> FALSE,
                            table |-> IF Strip(data[n]) = "-" THEN prev.table
                                      ELSE [prev.table EXCEPT
                                              ![cols[n]].data = Append(@, cv.val)],
                            dtypes |-> nd]

\* a row loop that sniffs the type of a column again at every row
RECURSIVE StoreRowSniffingAgain(_, _, _, _, _, _)
StoreRowSniffingAgain(t, cols, dts, data, first, n) ==
    IF n = 0 THEN [raised |-> FALSE, table |-> t, dtypes |-> dts]
    ELSE LET prev == StoreRowSniffingAgain(t, cols, dts, data, first, n - 1)
         IN  IF prev.raised \/ n > Len(data) THEN [prev EXCEPT !.raised = TRUE]
             ELSE LET dt == guess_column_dtype(Strip(data[n]))
                      nd == [prev.dtypes EXCEPT ![n] = dt]
                      cv == convert_data(Strip(data[n]), dt)
                  IN  IF cv.raised \/ cols[n] = 0
                      THEN [raised |-> TRUE, table |-> prev.table, dtypes |-> nd]
                      ELSE [raised |-> FALSE,
                            table |-> [prev.table EXCEPT
                                         ![cols[n]].data = Append(@, cv.val)],
                            dtypes |-> nd]

\* the body of the row loop for the fields of one row: data is the split row,
\* cols and dts are read_tabledata's columns and dtypes, first tells the first
\* data row (end_index == start_index).  Columns are served in order; raised is
\* the IndexError of data[i], the ValueError of float(d) or the AttributeError
\* of None.append_data.
RECURSIVE StoreRow(_, _, _, _, _, _)
StoreRow(t, cols, dts, data, first, n) ==
    IF n = 0 THEN [raised |-> FALSE, table |-> t, dtypes |-> dts]
    ELSE LET prev == StoreRow(t, cols, dts, data, first, n - 1)
         IN  IF prev.raised \/ n > Len(data) THEN [prev EXCEPT !.raised = TRUE]
             ELSE LET dt == IF first THEN guess_column_dtype(Strip(data[n]))
                                     ELSE prev.dtypes[n]
                      nd == IF first THEN [prev.dtypes EXCEPT ![n] = dt] ELSE prev.dtypes
                      cv == convert_data(Strip(data[n]), dt)
                  IN  IF cv.raised \/ cols[n] = 0
                      THEN [raised |-> TRUE, table |-> prev.table, dtypes |-> nd]
                      ELSE [raised |-> FALSE,
                            table |-> [prev.table EXCEPT
                                         ![cols[n]].data = Append(@, cv.val)],
                            dtypes |-> nd]

-----------------------------------------------------------------------------
(* The inputs of the table parser *)

MaxRows == 2

\* header blocks: the marker, and the group, subgroup, column, type and
\* ordinal rows
GroupRows == {"# traces  stimulus", "# stimulus"}
SubgroupRows == {"# V-1     timing", "# timing"}
ColumnRow == "# index   signal  delay"
TypeRow == "# word    -       ms"
OrdinalRows == {"# 1       2       3", "# 3       1       2", "# 1       1       2",
                "# 1       2       4", "# 1       2", "# 1       x       3"}

FullHeaders ==
    {<<"#Key", g, sg, ColumnRow, TypeRow, o>> :
        g \in GroupRows, sg \in SubgroupRows, o \in OrdinalRows}
    \cup {<<"#Key", "# stimulus", "# timing", ColumnRow, "# word    -", "# 1       2       3">>}
    \cup {<<"#Key", "# traces  stimulus", "# timing  timing", ColumnRow, TypeRow,
              "# 1       2       3">>,
            <<"#Key", "# stimulus  stimulus", "# V-1     timing", ColumnRow, TypeRow,
              "# 1       2       3">>}

\* headers that are cut short or too long, and no header at all
BrokenHeaders ==
    {<<>>, <<"#Key">>, <<"#Key", "# stimulus", "# timing">>,
     <<"#Key", "# stimulus", "# timing", ColumnRow, TypeRow,
       "# 1       2       3", "# extra">>}

DataRows == {"10  init  0", "30  -  5.5", "40  sine", "x  sine  2", "50  sine  2  9",
             "20  sine  -5.0"}

RowSeqs == UNION {[1..n -> DataRows] : n \in 0..MaxRows}

Preambles == {<<>>, <<"# RePro: SAM">>}
Trailers == {<<>>, <<"", "# project">>}

TableInputs ==
    {p \o h \o r \o t :
        p \in Preambles, h \in FullHeaders \cup BrokenHeaders,
        r \in RowSeqs, t \in Trailers}

-----------------------------------------------------------------------------
(* Table.table_parser as a state machine *)

InitTable ==
    /\ lines \in TableInputs
    /\ start_index = 0
    /\ tp_pc = "find_header"
    /\ hdr_start = 0
    /\ hdr_end = 0
    /\ table = <<>>
    /\ columns = <<>>
    /\ dtypes = <<>>
    /\ end_index = 0
    /\ tp_result = "none"
    /\ RunsIdle
    /\ ScanIdle
    /\ ConfigIdle
    /\ ValueIdle

\* start, end, _ = find_header(lines, start_index) and the test of end - start
FindHeader ==
    /\ tp_pc = "find_header" /\ tp_result = "none"
    /\ LET r == find_header(lines, start_index)
       IN  IF r.raised
           THEN /\ tp_result' = "raised"
                /\ UNCHANGED <<tp_pc, hdr_start, hdr_end, end_index>>
           ELSE /\ hdr_start' = r.start
                /\ hdr_end' = r.end
                /\ IF r.end - r.start # 5
                   THEN /\ end_index' = r.end
                        /\ tp_result' = "invalid"
                        /\ tp_pc' = "done"
                   ELSE /\ tp_pc' = "parse_header"
                        /\ UNCHANGED <<end_index, tp_result>>
    /\ UNCHANGED <<lines, start_index, table, columns, dtypes>>
    /\ UNCHANGED <<runVars, scanVars, configVars, valueVars>>

\* parse_header(lines, start, end)
ParseHeader ==
    /\ tp_pc = "parse_header" /\ tp_result = "none"
    /\ LET r == parse_header(lines, hdr_start, hdr_end)
       IN  IF r.raised
           THEN /\ tp_result' = "raised"
                /\ UNCHANGED <<tp_pc, table>>
           ELSE /\ table' = r.cols
                /\ tp_pc' = "read_tabledata"
                /\ UNCHANGED tp_result
    /\ UNCHANGED <<lines, start_index, hdr_start, hdr_end, columns, dtypes, end_index>>
    /\ UNCHANGED <<runVars, scanVars, configVars, valueVars>>

\* read_tabledata(lines, end + 1) up to its row loop
ReadTabledata ==
    /\ tp_pc = "read_tabledata" /\ tp_result = "none"
    /\ columns' = [i \in 1..column_count(table) |-> find_column(table, i)]
    /\ dtypes' = [i \in 1..column_count(table) |-> "float"]
    /\ end_index' = hdr_end + 1
    /\ tp_pc' = "row"
    /\ UNCHANGED <<lines, start_index, hdr_start, hdr_end, table, tp_result>>
    /\ UNCHANGED <<runVars, scanVars, configVars, valueVars>>

\* one turn of the row loop of read_tabledata
ReadRow ==
    /\ tp_pc = "row" /\ tp_result = "none"
    /\ IF end_index >= Len(lines) \/ Len(Strip(lines[end_index + 1])) = 0
       THEN /\ tp_pc' = "return"
            /\ UNCHANGED <<table, dtypes, end_index, tp_result>>
       ELSE LET data == Split2(Strip(lines[end_index + 1]))
                r == StoreRow(table, columns, dtypes, data,
                              end_index = hdr_end + 1, Len(columns))
            IN  /\ table' = r.table
                /\ dtypes' = r.dtypes
                /\ IF r.raised
                   THEN /\ tp_result' = "raised"
                        /\ UNCHANGED <<tp_pc, end_index>>
                   ELSE /\ end_index' = end_index + 1
                        /\ UNCHANGED <<tp_pc, tp_result>>
    /\ UNCHANGED <<lines, start_index, hdr_start, hdr_end, columns>>
    /\ UNCHANGED <<runVars, scanVars, configVars, valueVars>>

\* the end of table_parser: no data row makes the table invalid
ReturnTable ==
    /\ tp_pc = "return" /\ tp_result = "none"
    /\ tp_result' = IF hdr_end + 1 = end_index THEN "invalid" ELSE "valid"
    /\ tp_pc' = "done"
    /\ UNCHANGED <<lines, start_index, hdr_start, hdr_end, table, columns,
                   dtypes, end_index>>
    /\ UNCHANGED <<runVars, scanVars, configVars, valueVars>>

NextTable == FindHeader \/ ParseHeader \/ ReadTabledata \/ ReadRow \/ ReturnTable

SpecTable == InitTable /\ [][NextTable]_vars

-----------------------------------------------------------------------------
(* Converter.convert_repro_runs: repro_times *)

\* a time or None
Some(t) == [some |-> TRUE, v |-> t]
NoTime == [some |-> FALSE, v |-> 0]

\* the value None of a run name (ReproRun.name without a RePro property)
NoName == "<None>"

\* only_number of util.py: ^([+-]?\d+\.?\d+)$
only_number(s) ==
    LET u == Unsigned(s)
        p == Find(u, ".", 0)
    IN  IF p < 0 THEN Len(u) >= 2 /\ AllDigits(u)
        ELSE /\ p > 0 /\ p + 1 < Len(u)
             /\ AllDigits(SubSeq(u, 1, p))
             /\ AllDigits(DropFirst(u, p + 1))

\* Table.__getitem__(key) on the group names: the number of the first group
\* of that name, 0 for the KeyError
group_by_name(keys, key) ==
    IF \E g \in 1..Len(keys) : keys[g] = key
    THEN CHOOSE g \in 1..Len(keys) :
            keys[g] = key /\ \A h \in 1..(g - 1) : keys[h] # key
    ELSE 0

\* ColumnGroup.columns_by_name(name) of group g: for every subgroup that has
\* a column of that name, its first such column, in subgroup order
columns_by_name(t, g, name) ==
    SelectSeq([k \in 1..Len(t) |-> k],
              LAMBDA k : /\ t[k].group = g
                         /\ t[k].name = name
                         /\ \A j \in 1..(k - 1) :
                               ~(t[j].subgroup = t[k].subgroup /\ t[j].name = name))

\* the first duration, in column order, that is a number or a numeric text,
\* divided by 1000 to seconds, i.e. taken as milliseconds; 0 without one
RECURSIVE first_duration(_, _, _)
first_duration(t, duration_cols, n) ==
    IF n > Len(duration_cols) THEN 0
    ELSE LET d   == t[duration_cols[n]].data
             dur == d[Len(d)]
         IN  IF dur.kind = "float" THEN dur.milli \div 1000
             ELSE IF only_number(dur.text) THEN FloatMilli(dur.text) \div 1000
             ELSE first_duration(t, duration_cols, n + 1)

\* is_init: the first value of some signal column is the text "init"
is_init(t, signals) ==
    \E n \in 1..Len(signals) : t[signals[n]].data[1] = StrValue("init")

\* a delay that is taken from the delay column of an init stimulus too
delay_value_of_init(t, delay_cols, init) ==
    IF Len(delay_cols) = 0 THEN FloatValue("0")
    ELSE t[delay_cols[1]].data[1]

\* delay: 0.0 without a delay column or for an init stimulus, else the first
\* value of the first delay column
delay_value(t, delay_cols, init) ==
    IF Len(delay_cols) = 0 \/ init THEN FloatValue("0")
    ELSE t[delay_cols[1]].data[1]

stimulus_delay(t, g) ==
    delay_value(t, columns_by_name(t, g, "delay"),
                is_init(t, columns_by_name(t, g, "signal")))

\* start_time and end_time from the first and last index, the delay and the
\* duration; raised is the TypeError of arithmetic on a text
start_and_end(name, si, first, last, delay, duration) ==
    IF first.kind # "float" \/ delay.kind # "float"
    THEN [raised |-> TRUE, start |-> NoTime, end |-> NoTime]
    ELSE IF Contains(name, "BaselineActivity")
         THEN [raised |-> FALSE,
               start |-> Some((first.milli * si) \div 1000 - delay.milli \div 1000),
               end   |-> Some((first.milli * si) \div 1000 - delay.milli \div 1000)]
    ELSE IF last.kind # "float"
         THEN [raised |-> TRUE, start |-> NoTime, end |-> NoTime]
    ELSE [raised |-> FALSE,
          start |-> Some((first.milli * si) \div 1000 - delay.milli \div 1000),
          end   |-> Some((last.milli * si) \div 1000 + duration)]

\* repro_times once the index column and the stimulus group are looked up:
\* raised is the TypeError of len(None) when no column has ordinal 1, or the
\* KeyError of a table without a "stimulus" group
repro_times_of(rr, si, index_col, g) ==
    IF rr.name = NoName \/ ~rr.valid
    THEN [raised |-> FALSE, start |-> NoTime, end |-> NoTime]
    ELSE IF index_col = 0
         THEN [raised |-> TRUE, start |-> NoTime, end |-> NoTime]
    ELSE IF Len(rr.table[index_col].data) = 0
         THEN [raised |-> FALSE, start |-> NoTime, end |-> NoTime]
    ELSE IF g = 0
         THEN [raised |-> TRUE, start |-> NoTime, end |-> NoTime]
    ELSE start_and_end(rr.name, si,
                       rr.table[index_col].data[1],
                       rr.table[index_col].data[Len(rr.table[index_col].data)],
                       stimulus_delay(rr.table, g),
                       first_duration(rr.table,
                                      columns_by_name(rr.table, g, "duration"), 1))

\* repro_times(reprorun, sampleinterval), times in milliseconds
repro_times(rr, si) ==
    repro_times_of(rr, si, find_column(rr.table, 1), group_by_name(rr.keys, "stimulus"))

-----------------------------------------------------------------------------
(* Converter.convert_repro_runs: repro_runs and store_repro_runs *)

\* the guard band of the rescue, 1.0 s, in milliseconds
GuardBand == 1000

Upper == <<"A", "B", "C", "D", "E", "F", "G", "H", "I", "J", "K", "L", "M",
           "N", "O", "P", "Q", "R", "S", "T", "U", "V", "W", "X", "Y", "Z">>
Lower == <<"a", "b", "c", "d", "e", "f", "g", "h", "i", "j", "k", "l", "m",
           "n", "o", "p", "q", "r", "s", "t", "u", "v", "w", "x", "y", "z">>

LowerChar(c) ==
    IF \E k \in 1..26 : Upper[k] = c
    THEN Lower[CHOOSE k \in 1..26 : Upper[k] = c]
    ELSE c

\* str.lower
RECURSIVE ToLower(_)
ToLower(s) ==
    IF Len(s) = 0 THEN ""
    ELSE LowerChar(CharAt(s, 0)) \o ToLower(DropFirst(s, 1))

\* the decimal text of a count, as the f-string writes it
RECURSIVE IntToText(_)
IntToText(n) ==
    IF n < 10 THEN Digits[n + 1]
    ELSE IntToText(n \div 10) \o Digits[(n % 10) + 1]

\* a counter that is set for the first run of a name and never incremented
count_run_once(cnt, name) ==
    IF name \in DOMAIN cnt THEN cnt ELSE cnt @@ (name :> 1)

\* counter[rr.name] after the update at the head of the loop body
count_run(cnt, name) ==
    IF name \in DOMAIN cnt THEN [cnt EXCEPT ![name] = @ + 1] ELSE cnt @@ (name :> 1)

\* a rescue that does not test the neighbours' times for None: the
\* arithmetic on None raises
rescue_between_unchecked(before, after) ==
    IF before.raised \/ after.raised \/ ~before.end.some \/ ~after.start.some
    THEN [raised |-> TRUE, keep |-> FALSE, start |-> 0, end |-> 0]
    ELSE IF before.end.v + GuardBand >= after.start.v - GuardBand
         THEN [raised |-> FALSE, keep |-> FALSE, start |-> 0, end |-> 0]
    ELSE [raised |-> FALSE, keep |-> TRUE,
          start |-> before.end.v + GuardBand, end |-> after.start.v - GuardBand]

\* a rescue that leaves the guard band out at the end of the interval
rescue_between_open_end(before, after) ==
    IF before.raised \/ after.raised
    THEN [raised |-> TRUE, keep |-> FALSE, start |-> 0, end |-> 0]
    ELSE IF ~before.end.some \/ ~after.start.some
         THEN [raised |-> FALSE, keep |-> FALSE, start |-> 0, end |-> 0]
    ELSE IF before.end.v + GuardBand >= after.start.v
         THEN [raised |-> FALSE, keep |-> FALSE, start |-> 0, end |-> 0]
    ELSE [raised |-> FALSE, keep |-> TRUE,
          start |-> before.end.v + GuardBand, end |-> after.start.v]

\* the rescue interval from the times of the neighbours: the end of the
\* run before and the start of the run after, each moved by the guard band
rescue_between(before, after) ==
    IF before.raised \/ after.raised
    THEN [raised |-> TRUE, keep |-> FALSE, start |-> 0, end |-> 0]
    ELSE IF ~before.end.some \/ ~after.start.some
         THEN [raised |-> FALSE, keep |-> FALSE, start |-> 0, end |-> 0]
    ELSE IF before.end.v + GuardBand >= after.start.v - GuardBand
         THEN [raised |-> FALSE, keep |-> FALSE, start |-> 0, end |-> 0]
    ELSE [raised |-> FALSE, keep |-> TRUE,
          start |-> before.end.v + GuardBand, end |-> after.start.v - GuardBand]

\* the rescue of the invalid run i (counted from 0): keep tells whether the
\* run goes on to be appended; raised is the AttributeError of None.lower()
\* or an exception of repro_times on a neighbour
rescue(runs, i, si) ==
    IF runs[i + 1].name = NoName
    THEN [raised |-> TRUE, keep |-> FALSE, start |-> 0, end |-> 0]
    ELSE IF ~Contains(ToLower(runs[i + 1].name), "baselineactivity")
         THEN [raised |-> FALSE, keep |-> FALSE, start |-> 0, end |-> 0]
    ELSE rescue_between(
            IF i = 0 THEN [raised |-> FALSE, start |-> NoTime, end |-> Some(0)]
                     ELSE repro_times(runs[i], si),
            IF i < Len(runs) - 1 THEN repro_times(runs[i + 2], si)
                                 ELSE [raised |-> FALSE, start |-> NoTime, end |-> NoTime])

\* the times of a valid run as the loop body takes them from repro_times
own_times(tm) ==
    IF tm.raised THEN [raised |-> TRUE, keep |-> FALSE, start |-> 0, end |-> 0]
    ELSE IF ~tm.start.some THEN [raised |-> FALSE, keep |-> FALSE, start |-> 0, end |-> 0]
    ELSE [raised |-> FALSE, keep |-> TRUE, start |-> tm.start.v, end |-> tm.end.v]

\* start and end of run i as the loop body settles them before it appends
run_times(runs, i, si) ==
    IF ~runs[i + 1].valid THEN rescue(runs, i, si)
    ELSE own_times(repro_times(runs[i + 1], si))

\* the appends with the one of the metadata left out
append_run_without_metadata(out, name, cnt, start, end, meta) ==
    [names     |-> Append(out.names, name \o "_" \o IntToText(cnt[name])),
     starts    |-> Append(out.starts, start),
     durations |-> Append(out.durations, end - start),
     ends      |-> Append(out.ends, end),
     metadata  |-> out.metadata]

\* the five appends at the end of the loop body
append_run(out, name, cnt, start, end, meta) ==
    [names     |-> Append(out.names, name \o "_" \o IntToText(cnt[name])),
     starts    |-> Append(out.starts, start),
     durations |-> Append(out.durations, end - start),
     ends      |-> Append(out.ends, end),
     metadata  |-> Append(out.metadata, meta)]

\* a post-pass that measures the new duration from the old end
close_gap_from_end(out, i, si) ==
    IF out.durations[i + 1] < si /\ i < Len(out.starts) - 1
    THEN [out EXCEPT !.durations[i + 1] = out.starts[i + 2] - out.ends[i + 1],
                     !.ends[i + 1] = out.starts[i + 2]]
    ELSE out

\* a post-pass that stretches every entry that has a successor
close_gap_always(out, i, si) ==
    IF i < Len(out.starts) - 1
    THEN [out EXCEPT !.durations[i + 1] = out.starts[i + 2] - out.starts[i + 1],
                     !.ends[i + 1] = out.starts[i + 2]]
    ELSE out

\* the body of the post-pass for entry i (from 0): the duration and the end
\* of a short entry that has a successor are moved to the successor's start
close_gap(out, i, si) ==
    IF out.durations[i + 1] < si /\ i < Len(out.starts) - 1
    THEN [out EXCEPT !.durations[i + 1] = out.starts[i + 2] - out.starts[i + 1],
                     !.ends[i + 1] = out.starts[i + 2]]
    ELSE out

\* store_repro_runs: one tag for every position the four lists share
store_repro_runs(names, metadata, start_times, durations) ==
    [k \in 1..Min(Min(Len(names), Len(metadata)), Min(Len(start_times), Len(durations)))
        |-> [name |-> names[k], position |-> start_times[k],
             extent |-> durations[k], metadata |-> metadata[k]]]

\* Converter.convert_stimuli.stimuli: the keys of stims with the run they
\* belong to (from 0); the counter passes over the runs without a name
stimulus_counted(runs, k, cnt, stims) ==
    IF ~runs[k].valid \/ Contains(runs[k].name, "BaselineActivity") THEN stims
    ELSE Append(stims, [key |-> runs[k].name \o "_" \o IntToText(cnt[runs[k].name]),
                        run |-> k - 1])

RECURSIVE stimuli_from(_, _, _, _)
stimuli_from(runs, k, cnt, stims) ==
    IF k > Len(runs) THEN stims
    ELSE IF runs[k].name = NoName THEN stimuli_from(runs, k + 1, cnt, stims)
    ELSE stimuli_from(runs, k + 1, count_run(cnt, runs[k].name),
                      stimulus_counted(runs, k, count_run(cnt, runs[k].name), stims))

stimuli(runs) == stimuli_from(runs, 1, <<>>, <<>>)

\* the five lists of repro_runs as one record
Lists == [names |-> repro_names, starts |-> repro_starts, durations |-> repro_durations,
          ends |-> repro_ends, metadata |-> repro_metadata]

-----------------------------------------------------------------------------
(* The inputs of the timeline reconstruction *)

MaxRuns == 3

Num(n) == [kind |-> "float", text |-> "", milli |-> 1000 * n]

\* the table of a run of two stimuli: the index column in the group
\* "traces", signal, delay and duration in the group "stimulus"
StimulusTable(first, last, signal, delay, dur) ==
    <<[name |-> "index", number |-> 1, type_or_unit |-> "word", group |-> 1,
       subgroup |-> <<1, 1>>, data |-> <<Num(first), Num(last)>>],
      [name |-> "signal", number |-> 2, type_or_unit |-> "-", group |-> 2,
       subgroup |-> <<2, 1>>, data |-> <<StrValue(signal), StrValue(signal)>>],
      [name |-> "delay", number |-> 3, type_or_unit |-> "ms", group |-> 2,
       subgroup |-> <<2, 1>>, data |-> <<delay, delay>>],
      [name |-> "duration", number |-> 4, type_or_unit |-> "ms", group |-> 2,
       subgroup |-> <<2, 1>>, data |-> <<dur, dur>>]>>

ValidRun(name, first, last, signal, delay, dur) ==
    [name |-> name, valid |-> TRUE, keys |-> <<"traces", "stimulus">>,
     table |-> StimulusTable(first, last, signal, delay, dur)]

\* a run whose table was not parsed
InvalidRun(name) == [name |-> name, valid |-> FALSE, keys |-> <<>>, table |-> <<>>]

RunTemplates ==
    {ValidRun("SAM", 20, 20, "sine", Num(0), Num(0)),
     ValidRun("SAM", 30, 34, "sine", Num(0), Num(200)),
     ValidRun("SAM", 23, 23, "init", Num(500), StrValue("-")),
     ValidRun("SAM", 41, 42, "sine", Num(1000), StrValue("250")),
     ValidRun("SAM", 38, 38, "sine", Num(0), Num(200)),
     ValidRun("BaselineActivity", 40, 44, "sine", Num(0), Num(200)),
     [ValidRun("SAM", 30, 34, "sine", Num(0), Num(200)) EXCEPT !.keys = <<"traces", "data">>],
     ValidRun(NoName, 30, 34, "sine", Num(0), Num(200)),
     [ValidRun("SAM", 50, 52, "sine", Num(0), StrValue("-"))
         EXCEPT !.table[4].data[2] = StrValue("5")],
     [ValidRun("SAM", 60, 60, "sine", Num(0), Num(2))
         EXCEPT !.table[4].type_or_unit = "s"],
     [ValidRun("SAM", 70, 70, "sine", Num(300), Num(0))
         EXCEPT !.table[3].name = "intensity"],
     InvalidRun("BaselineActivity"),
     InvalidRun("SAM"),
     InvalidRun(NoName)}

RunInputs == UNION {[1..n -> RunTemplates] : n \in 1..MaxRuns}

\* sample interval1 / 1000 of the general metadata, here in milliseconds
SampleIntervals == {500, 100}

-----------------------------------------------------------------------------
(* Converter.convert_repro_runs as a state machine *)

InitRuns ==
    /\ stimuli_runs \in RunInputs
    /\ sample_interval \in SampleIntervals
    /\ rr_pc = "main"
    /\ rr_i = 0
    /\ counter = <<>>
    /\ repro_names = <<>>
    /\ repro_starts = <<>>
    /\ repro_ends = <<>>
    /\ repro_durations = <<>>
    /\ repro_metadata = <<>>
    /\ repro_tags = <<>>
    /\ lines = <<>>
    /\ TableIdle
    /\ ScanIdle
    /\ ConfigIdle
    /\ ValueIdle

\* the lists after the loop body for a run with the times tm
appended(out, rr, cnt, tm, i) ==
    IF tm.keep THEN append_run(out, rr.name, cnt, tm.start, tm.end, i) ELSE out

\* one turn of the loop over the runs in repro_runs
MainPass ==
    /\ rr_pc = "main" /\ rr_i < Len(stimuli_runs)
    /\ \E tm \in {run_times(stimuli_runs, rr_i, sample_interval)} :
       \E cnt \in {count_run(counter, stimuli_runs[rr_i + 1].name)} :
       \E out \in {appended(Lists, stimuli_runs[rr_i + 1], cnt, tm, rr_i)} :
           /\ counter' = cnt
           /\ IF tm.raised
              THEN /\ rr_pc' = "raised"
                   /\ UNCHANGED <<rr_i, repro_names, repro_starts, repro_ends,
                                  repro_durations, repro_metadata>>
              ELSE /\ repro_names' = out.names
                   /\ repro_starts' = out.starts
                   /\ repro_ends' = out.ends
                   /\ repro_durations' = out.durations
                   /\ repro_metadata' = out.metadata
                   /\ rr_i' = IF rr_i + 1 < Len(stimuli_runs) THEN rr_i + 1 ELSE 0
                   /\ rr_pc' = IF rr_i + 1 < Len(stimuli_runs) THEN "main" ELSE "postpass"
    /\ UNCHANGED <<stimuli_runs, sample_interval, repro_tags>>
    /\ UNCHANGED <<tableVars, scanVars, configVars, valueVars>>

\* one turn of the post-pass loop of repro_runs
PostPass ==
    /\ rr_pc = "postpass" /\ rr_i < Len(repro_starts)
    /\ \E out \in {close_gap(Lists, rr_i, sample_interval)} :
           /\ repro_durations' = out.durations
           /\ repro_ends' = out.ends
    /\ rr_i' = rr_i + 1
    /\ UNCHANGED <<stimuli_runs, sample_interval, rr_pc, counter, repro_names,
                   repro_starts, repro_metadata, repro_tags>>
    /\ UNCHANGED <<tableVars, scanVars, configVars, valueVars>>

\* repro_runs returns and store_repro_runs writes the tags
StoreReproRuns ==
    /\ rr_pc = "postpass" /\ rr_i >= Len(repro_starts)
    /\ repro_tags' = store_repro_runs(repro_names, repro_metadata, repro_starts,
                                      repro_durations)
    /\ rr_pc' = "done"
    /\ UNCHANGED <<stimuli_runs, sample_interval, rr_i, counter, repro_names,
                   repro_starts, repro_ends, repro_durations, repro_metadata>>
    /\ UNCHANGED <<tableVars, scanVars, configVars, valueVars>>

NextRuns == MainPass \/ PostPass \/ StoreReproRuns

SpecRuns == InitRuns /\ [][NextRuns]_vars

-----------------------------------------------------------------------------
(* Table.table_parser as one function of the lines and the start index *)

RECURSIVE read_rows(_, _, _, _, _, _)

\* the row loop of read_tabledata after a row was stored
row_stored(r, cols, ls, idx, first) ==
    IF r.raised THEN [raised |-> TRUE, table |-> r.table, end |-> idx]
    ELSE read_rows(r.table, cols, r.dtypes, ls, idx + 1, first)

\* the row loop of read_tabledata from line idx on
read_rows(t, cols, dts, ls, idx, first) ==
    IF idx >= Len(ls) \/ Len(Strip(ls[idx + 1])) = 0
    THEN [raised |-> FALSE, table |-> t, end |-> idx]
    ELSE row_stored(StoreRow(t, cols, dts, Split2(Strip(ls[idx + 1])),
                             idx = first, Len(cols)),
                    cols, ls, idx, first)

\* read_tabledata(lines, start_index)
read_tabledata(t, ls, first) ==
    read_rows(t, [i \in 1..column_count(t) |-> find_column(t, i)],
              [i \in 1..column_count(t) |-> "float"], ls, first, first)

\* the end of table_parser
table_read(first, r) ==
    [raised |-> r.raised, end |-> r.end, valid |-> ~r.raised /\ first # r.end,
     table |-> r.table]

table_of_columns(ls, h, hd) ==
    IF hd.raised
    THEN [raised |-> TRUE, end |-> h.end, valid |-> FALSE, table |-> <<>>]
    ELSE table_read(h.end + 1, read_tabledata(hd.cols, ls, h.end + 1))

table_of_header(ls, h) ==
    IF h.raised
    THEN [raised |-> TRUE, end |-> -1, valid |-> FALSE, table |-> <<>>]
    ELSE IF h.end - h.start # 5
         THEN [raised |-> FALSE, end |-> h.end, valid |-> FALSE, table |-> <<>>]
    ELSE table_of_columns(ls, h, parse_header(ls, h.start, h.end))

\* table_parser(lines, start_index): raised, or the end index, the validity
\* and the columns
table_parser(ls, start0) == table_of_header(ls, find_header(ls, start0))

-----------------------------------------------------------------------------
(* Metadata: _parse and _rearrange_metadata *)

\* str.lstrip(chars)
RECURSIVE LStripChars(_, _)
LStripChars(s, chars) ==
    IF Len(s) > 0 /\ CharAt(s, 0) \in chars THEN LStripChars(DropFirst(s, 1), chars)
    ELSE s

\* s.split(sep)[0] and what is behind the first sep
Cut(s, sep, at) == IF at < 0 THEN s ELSE SubSeq(s, 1, at)
UpTo(s, sep) == Cut(s, sep, Find(s, sep, 0))
Rest(s, sep, at) == IF at < 0 THEN "" ELSE DropFirst(s, at + Len(sep))
Behind(s, sep) == Rest(s, sep, Find(s, sep, 0))

\* s.split(sep)[-1]
RECURSIVE LastPart(_, _)
LastPart(s, sep) == IF Find(s, sep, 0) < 0 THEN s ELSE LastPart(Behind(s, sep), sep)

\* str.endswith
EndsWith(s, p) == Len(s) >= Len(p) /\ SubSeq(s, Len(s) - Len(p) + 1, Len(s)) = p

\* str.replace(a, b) for single characters a and b
RECURSIVE Replace(_, _, _)
Replace(s, a, b) ==
    IF Len(s) = 0 THEN ""
    ELSE (IF CharAt(s, 0) = a THEN b ELSE CharAt(s, 0)) \o Replace(DropFirst(s, 1), a, b)

\* lines[start:end]: the bounds of a slice
SliceTo(ls, end) == SliceFrom(ls, end)

(* parse_value of rlx2nix/util.py (imported by stimuli.py, not part of the *)
(* sources at hand), after section 4.1 of the specification: an integer,   *)
(* a decimal number, a number followed by a unit of the unit table, or     *)
(* else the text itself with an empty unit.  Of the unit table the         *)
(* specification names "ms" and "s".                                       *)
Units == {"ms", "s"}

DropLast(s, n) == SubSeq(s, 1, Len(s) - n)

\* the units the token ends in behind a number
units_behind_number(t) ==
    {u \in Units : EndsWith(t, u) /\ IsDecimalText(Strip(DropLast(t, Len(u))))}

\* the longest unit of the table that follows a number at the end of the
\* token, "" if there is none
unit_of(t) ==
    IF units_behind_number(t) = {} THEN ""
    ELSE CHOOSE u \in units_behind_number(t) :
            \A v \in units_behind_number(t) : Len(v) <= Len(u)

\* the integer and the decimal case; s is given back if t is neither
classified(s, t, unit) ==
    [kind |-> IF IsIntegerText(t) THEN "int"
              ELSE IF IsDecimalText(t) THEN "float" ELSE "str",
     text |-> IF IsDecimalText(t) THEN t ELSE s,
     unit |-> IF IsDecimalText(t) THEN unit ELSE ""]

with_unit(s, t, unit) ==
    IF unit = "" THEN classified(s, t, "")
    ELSE classified(s, Strip(DropLast(t, Len(unit))), unit)

parse_value(s) == with_unit(s, Strip(s), unit_of(Strip(s)))

looks_like_property(line) ==
    /\ Contains(line, ":")
    /\ Contains(Strip(line), ": ")
    /\ CharAt(Strip(line), 0) # "*"

looks_like_section(line) ==
    ~Contains(line, "experiment") /\ Len(line) > 0 /\ ~looks_like_property(line)

HasType(name) == Contains(name, "(") /\ EndsWith(name, ")")

\* name and type of the section a line opens
typed_name(name) == IF HasType(name) THEN Strip(UpTo(name, "(")) ELSE name
type_of(part) == Replace(Strip(SubSeq(part, 1, Len(part) - 1)), "/", ".")
name_type(name) == IF HasType(name) THEN type_of(LastPart(name, "(")) ELSE "n.s."
section_name(l) == typed_name(UpTo(LStripChars(Strip(l), {"#", " "}), ":"))
section_type(l) == name_type(UpTo(LStripChars(Strip(l), {"#", " "}), ":"))

\* name and value text of the property a line gives
property_name(l) == Strip(UpTo(Strip(LStripChars(l, {"#"})), ": "))
property_value(l) == Strip(UpTo(Behind(Strip(LStripChars(l, {"#"})), ": "), ": "))

\* the names of a list of sections or properties
Names(objs) == {objs[k].name : k \in 1..Len(objs)}

\* the position of the object of that name, 0 if there is none
ByName(objs, name) ==
    IF name \in Names(objs)
    THEN CHOOSE k \in 1..Len(objs) :
            objs[k].name = name /\ \A j \in 1..(k - 1) : objs[j].name # name
    ELSE 0

\* an odml.Section without sub-sections
Section(name, type, props) == [name |-> name, type |-> type, props |-> props]

\* odml.Section(name) and the section the parser is in (0 for the root)
EmptyRoot == [raised |-> FALSE, props |-> <<>>, sections |-> <<>>, cur |-> 0]

\* self._root.create_section(name, type): odml refuses a second object of
\* one name in one list with a KeyError
create_section(md, name, type) ==
    IF name \in Names(md.sections) THEN [md EXCEPT !.raised = TRUE]
    ELSE [md EXCEPT !.sections = Append(md.sections, Section(name, type, <<>>)),
                    !.cur = Len(md.sections) + 1]

\* section.create_property(name, value); p.unit = unit
create_property(md, name, value) ==
    IF md.cur = 0
    THEN IF name \in Names(md.props) THEN [md EXCEPT !.raised = TRUE]
         ELSE [md EXCEPT !.props = Append(md.props, [name |-> name, value |-> value])]
    ELSE IF name \in Names(md.sections[md.cur].props) THEN [md EXCEPT !.raised = TRUE]
    ELSE [md EXCEPT !.sections[md.cur].props =
                        Append(md.sections[md.cur].props, [name |-> name, value |-> value])]

\* the body of the loop of _parse
parse_line(l, md) ==
    IF ~StartsWith(l, "#") THEN md
    ELSE IF looks_like_section(l) THEN create_section(md, section_name(l), section_type(l))
    ELSE IF looks_like_property(l)
         THEN create_property(md, property_name(l), parse_value(property_value(l)))
    ELSE md

\* _parse over lines[i:hi]
RECURSIVE parse_lines(_, _, _, _)
parse_lines(ls, i, hi, md) ==
    IF i >= hi \/ md.raised THEN md
    ELSE parse_lines(ls, i + 1, hi, parse_line(ls[i + 1], md))

\* Metadata(name, lines, start, end) without the rearrangement
Metadata(ls, start, end) == parse_lines(ls, SliceFrom(ls, start), SliceTo(ls, end), EmptyRoot)

root_props ==
    [name \in {"repro", "author", "version", "date", "run", "experiment"} |->
        CASE name = "repro" -> "RePro"
          [] name = "author" -> "Author"
          [] name = "version" -> "Version"
          [] name = "date" -> "Date"
          [] name = "run" -> "Run"
          [] name = "experiment" -> "Experiment"]

sections_to_keep == {"macros", "settings"}

\* section.insert(0, p) for every p of props, in order
RECURSIVE InsertAll(_, _, _)
InsertAll(into, props, k) ==
    IF k > Len(props) THEN into ELSE InsertAll(<<props[k]>> \o into, props, k + 1)

Renamed(p) == [p EXCEPT !.name = root_props[p.name]]

\* the rearranged metadata: the properties of "RePro-Info" and its sections
Rearranged(info, sections) ==
    [raised |-> FALSE, info |-> info, sections |-> sections]
RearrangeRaised == [raised |-> TRUE, info |-> <<>>, sections |-> <<>>]

\* the old-style branch: the properties of "project" are split between
\* "RePro-Info" and its section "settings"
rearrange_oldstyle(props) ==
    Rearranged(InsertAll(<<>>, [k \in 1..Len(SelectSeq(props, LAMBDA p : p.name \in DOMAIN root_props)) |->
                                    Renamed(SelectSeq(props, LAMBDA p : p.name \in DOMAIN root_props)[k])], 1),
               <<Section("settings", "relacs.repro.settings",
                         InsertAll(<<>>, SelectSeq(props, LAMBDA p : p.name \notin DOMAIN root_props), 1))>>)

\* the properties of the sections that are flattened into "settings"
RECURSIVE FlatProps(_, _)
FlatProps(sections, k) ==
    IF k > Len(sections) THEN <<>>
    ELSE (IF ~Contains(sections[k].name, "RePro-Info")
             /\ sections[k].name \notin sections_to_keep
          THEN sections[k].props ELSE <<>>) \o FlatProps(sections, k + 1)

\* the new-style branch once the kept sections are under "RePro-Info":
\* a missing "settings" is a KeyError, a property that "settings" already
\* has is refused by odml
flatten_into(info, kept, at, flat) ==
    IF at = 0 THEN RearrangeRaised
    ELSE IF \E k \in 1..Len(flat) :
               \/ flat[k].name \in Names(kept[at].props)
               \/ \E j \in 1..(k - 1) : flat[j].name = flat[k].name
         THEN RearrangeRaised
    ELSE Rearranged(info.props,
                    [kept EXCEPT ![at].props = InsertAll(kept[at].props, flat, 1)])

kept_sections(sections) ==
    InsertAll(<<>>, SelectSeq(sections, LAMBDA x : ~Contains(x.name, "RePro-Info")
                                                    /\ x.name \in sections_to_keep), 1)

rearrange_newstyle(info, kept, sections) ==
    flatten_into(info, kept, ByName(kept, "settings"), FlatProps(sections, 1))

\* _rearrange_metadata
rearrange_metadata(root) ==
    IF "RePro-Info" \notin Names(root.sections)
    THEN IF "project" \notin Names(root.sections) THEN RearrangeRaised
         ELSE rearrange_oldstyle(root.sections[ByName(root.sections, "project")].props)
    ELSE rearrange_newstyle(root.sections[ByName(root.sections, "RePro-Info")],
                            kept_sections(root.sections), root.sections)

\* Metadata(name, lines, start, end, rearrange=True)
rearranged_of(root) == IF root.raised THEN RearrangeRaised ELSE rearrange_metadata(root)
RearrangedMetadata(ls, start, end) == rearranged_of(Metadata(ls, start, end))

-----------------------------------------------------------------------------
(* ReproRun *)

\* the first loop of _find_repro_settings: the index of the first line at or
\* after index that is not blank, -1 - len for the IndexError of running
\* off the lines
RECURSIVE skip_blank(_, _)
skip_blank(ls, index) ==
    IF ~ValidIndex(ls, index) THEN 0 - 1 - Len(ls)
    ELSE IF Len(Strip(PyAt(ls, index))) = 0 THEN skip_blank(ls, index + 1)
    ELSE index

\* the second loop of _find_repro_settings
RECURSIVE scan_key(_, _, _)
scan_key(ls, index, line) ==
    IF StartsWith(line, "#Key") THEN index
    ELSE IF index + 1 < Len(ls) THEN scan_key(ls, index + 1, PyAt(ls, index + 1))
    ELSE index + 1

settings_from(ls, start) ==
    IF ~ValidIndex(ls, start) THEN [raised |-> TRUE, start |-> start, end |-> start]
    ELSE [raised |-> FALSE, start |-> start,
          end |-> scan_key(ls, start, Strip(PyAt(ls, start)))]

\* _find_repro_settings(lines) of a run that starts at start
find_repro_settings(ls, start) == settings_from(ls, skip_blank(ls, start))

\* ReproRun.name
name_at(info, at) == IF at = 0 THEN NoName ELSE info[at].value.text
ReproRun_name(md) == name_at(md.info, ByName(md.info, "RePro"))

RunRaised ==
    [raised |-> TRUE, name |-> NoName, start |-> 0, end |-> 0, valid |-> FALSE,
     table |-> <<>>, info |-> <<>>, sections |-> <<>>]

scanned_table(start, md, t) ==
    IF t.raised THEN RunRaised
    ELSE [raised |-> FALSE, name |-> ReproRun_name(md), start |-> start,
          end |-> t.end, valid |-> t.valid, table |-> t.table,
          info |-> md.info, sections |-> md.sections]

scanned_metadata(ls, st, start, md) ==
    IF md.raised THEN RunRaised
    ELSE scanned_table(start, md, table_parser(ls, st.end))

scanned_settings(ls, start, st) ==
    IF st.raised THEN RunRaised
    ELSE scanned_metadata(ls, st, start, RearrangedMetadata(ls, st.start, st.end))

\* ReproRun(lines, start_index): _scan_repro
ReproRun(ls, start) == scanned_settings(ls, start, find_repro_settings(ls, start))

-----------------------------------------------------------------------------
(* StimuliDat: find_general_metadata and scan_file *)

\* the first loop of find_general_metadata; -1 - len for the IndexError
RECURSIVE skip_to_comment(_, _)
skip_to_comment(ls, index) ==
    IF ~ValidIndex(ls, index) THEN 0 - 1 - Len(ls)
    ELSE IF StartsWith(Strip(PyAt(ls, index)), "#") THEN index
    ELSE skip_to_comment(ls, index + 1)

\* the second loop of find_general_metadata
RECURSIVE skip_comments(_, _)
skip_comments(ls, index) ==
    IF ~ValidIndex(ls, index) THEN 0 - 1 - Len(ls)
    ELSE IF StartsWith(Strip(PyAt(ls, index)), "#")
            /\ ~StartsWith(Strip(PyAt(ls, index)), "#Key")
         THEN skip_comments(ls, index + 1)
    ELSE index

general_from(ls, start_index0, first, index) ==
    IF ~ValidIndex(ls, first) \/ ~ValidIndex(ls, index)
    THEN [raised |-> TRUE, start |-> 0, end |-> 0]
    ELSE [raised |-> FALSE,
          start |-> IF first > start_index0 THEN first - 1 ELSE start_index0,
          end |-> index]

general_at(ls, start_index0, first) ==
    general_from(ls, start_index0, first,
                 IF ValidIndex(ls, first) THEN skip_comments(ls, first) ELSE first)

\* find_general_metadata(lines, start_index)
find_general_metadata(ls, start_index0) ==
    general_at(ls, start_index0, skip_to_comment(ls, start_index0))

-----------------------------------------------------------------------------
(* StimuliDat.scan_file as a state machine *)

\* the largest number of runs the scan is followed for
MaxScanRuns == 4

\* the lines of a stimulus log: the general metadata, then up to two runs,
\* each a blank line, a metadata block and a table, then the end of the file
ScanGenerals ==
    {<<"# analog input traces", "#     identifier1: V-1">>,
     <<"", "# analog input traces">>}

ScanMetadata ==
    {<<"# project", "# repro: SAM", "# author: me", "# pause: 10">>,
     <<"# RePro-Info:", "# RePro: SAM", "# settings:", "# pause: 10",
       "# stimulus (relacs/stimulus):", "# offset: 2.5">>,
     <<"# repro: SAM">>,
     <<"# RePro-Info:", "# RePro: SAM">>,
     <<"# project", "# repro: SAM", "# date: 12: 30">>}

ScanHeader == <<"#Key", "# stimulus", "# timing", ColumnRow, TypeRow, "# 1       2       3">>

ScanTables ==
    {ScanHeader \o <<"10  init  0">>,
     ScanHeader \o <<"10  init  0", "30  -  5.5">>,
     ScanHeader,
     <<>>}

ScanRunBlocks == {<<"">> \o m \o t : m \in ScanMetadata, t \in ScanTables}

ScanEnds == {<<>>, <<"">>, <<"", "">>}

ScanInputs ==
    {g \o r \o e : g \in ScanGenerals, r \in ScanRunBlocks, e \in ScanEnds}
    \cup {g \o r1 \o r2 \o e :
            g \in ScanGenerals, r1 \in ScanRunBlocks, r2 \in ScanRunBlocks,
            e \in ScanEnds}

\* StimuliDat(filename): the file is there with its lines, or it is missing
InitScan ==
    /\ \/ sc_exists = TRUE /\ lines \in ScanInputs
       \/ sc_exists = FALSE /\ lines = <<>>
    /\ sc_pc = "start"
    /\ sc_end = 0
    /\ sc_general = <<>>
    /\ sc_runs = <<>>
    /\ TableIdle
    /\ RunsIdle
    /\ ConfigIdle
    /\ ValueIdle

\* StimuliDat.__init__ on a missing file: logging.error and return, the
\* object stays with no runs and no general metadata
StimuliDatMissing ==
    /\ sc_pc = "start"
    /\ ~sc_exists
    /\ sc_pc' = "returned"
    /\ UNCHANGED <<sc_end, sc_general, sc_runs, sc_exists>>
    /\ UNCHANGED <<tableVars, runVars, configVars, valueVars>>

\* start, end = self.find_general_metadata(lines) and the general Metadata
ScanStart ==
    /\ sc_pc = "start"
    /\ sc_exists
    /\ \E g \in {find_general_metadata(lines, 0)} :
          IF g.raised
          THEN /\ sc_pc' = "raised"
               /\ UNCHANGED <<sc_end, sc_general>>
          ELSE \E md \in {Metadata(lines, g.start, g.end)} :
                  IF md.raised
                  THEN /\ sc_pc' = "raised"
                       /\ UNCHANGED <<sc_end, sc_general>>
                  ELSE /\ sc_pc' = "loop"
                       /\ sc_end' = g.end
                       /\ sc_general' = <<[props |-> md.props, sections |-> md.sections]>>
    /\ UNCHANGED <<sc_runs, sc_exists>>
    /\ UNCHANGED <<tableVars, runVars, configVars, valueVars>>

\* one turn of the loop of scan_file
ScanRepro ==
    /\ sc_pc = "loop"
    /\ sc_end < Len(lines) - 1
    /\ Len(sc_runs) < MaxScanRuns
    /\ \E repro_run \in {ReproRun(lines, sc_end)} :
          IF repro_run.raised
          THEN /\ sc_pc' = "raised"
               /\ UNCHANGED <<sc_end, sc_runs>>
          ELSE /\ sc_end' = repro_run.end
               /\ sc_runs' = Append(sc_runs, repro_run)
               /\ UNCHANGED sc_pc
    /\ UNCHANGED <<sc_general, sc_exists>>
    /\ UNCHANGED <<tableVars, runVars, configVars, valueVars>>

\* the loop of scan_file ends
ScanDone ==
    /\ sc_pc = "loop"
    /\ ~(sc_end < Len(lines) - 1)
    /\ sc_pc' = "done"
    /\ UNCHANGED <<sc_end, sc_general, sc_runs, sc_exists>>
    /\ UNCHANGED <<tableVars, runVars, configVars, valueVars>>

NextScan == StimuliDatMissing \/ ScanStart \/ ScanRepro \/ ScanDone

SpecScan == InitScan /\ [][NextScan]_vars

-----------------------------------------------------------------------------
(* ConfigFile: the detection of the format and of the indentation *)

\* len(line) - len(line.lstrip(" "))
LeadingSpaces(line) == Len(line) - Len(LStrip(line))

empty_or_comment(line) == Len(Strip(line)) = 0 \/ CharAt(line, 0) = "#"

\* ConfigFile.looks_like_property(line, style)
config_looks_like_property(line, style) ==
    IF style = "old" THEN Contains(line, ":")
    ELSE Contains(line, ":") /\ Contains(Strip(line), ": ")

\* ConfigFile.looks_like_section(line, style)
config_looks_like_section(line, style) ==
    ~empty_or_comment(line) /\ ~config_looks_like_property(line, style)

\* guess_file_format(filename) from line k on
RECURSIVE format_from(_, _)
format_from(ls, k) ==
    IF k > Len(ls) THEN "new"
    ELSE IF empty_or_comment(ls[k]) THEN format_from(ls, k + 1)
    ELSE IF ~Contains(ls[k], "*") /\ ~Contains(ls[k], ":") THEN "old"
    ELSE format_from(ls, k + 1)

guess_file_format(ls) == format_from(ls, 1)

\* the set indentations of guess_indentation
Indentations(ls, style) ==
    {LeadingSpaces(ls[k]) : k \in {j \in 1..Len(ls) : config_looks_like_section(ls[j], style)}}

\* sorted(list(indentations))
RECURSIVE Sorted(_)
Sorted(set) ==
    IF set = {} THEN <<>>
    ELSE <<CHOOSE x \in set : \A y \in set : x <= y>>
         \o Sorted(set \ {CHOOSE x \in set : \A y \in set : x <= y})

\* np.unique(np.diff(np.array(indentations)))
DiffSet(sorted) == {sorted[k + 1] - sorted[k] : k \in 1..(Len(sorted) - 1)}

\* a guess that takes the deeper of two depths for their difference
indentation_of_deepest(sorted, diffs) ==
    IF Len(sorted) > 2
    THEN IF Cardinality(diffs) > 1 THEN [raised |-> TRUE, indent |-> 0]
         ELSE [raised |-> FALSE, indent |-> CHOOSE d \in diffs : TRUE]
    ELSE IF Len(sorted) = 2
         THEN [raised |-> FALSE, indent |-> sorted[Len(sorted)]]
    ELSE [raised |-> FALSE, indent |-> 1]

\* the three cases of guess_indentation; raised is the ValueError of
\* inconsistent indentation levels
indentation_of(sorted, diffs) ==
    IF Len(sorted) > 2
    THEN IF Cardinality(diffs) > 1 THEN [raised |-> TRUE, indent |-> 0]
         ELSE [raised |-> FALSE, indent |-> CHOOSE d \in diffs : TRUE]
    ELSE IF Len(sorted) = 2
         THEN [raised |-> FALSE, indent |-> sorted[Len(sorted)] - sorted[1]]
    ELSE [raised |-> FALSE, indent |-> 1]

indentation_sorted(sorted) == indentation_of(sorted, DiffSet(sorted))

\* guess_indentation(filename, style)
guess_indentation(ls, style) == indentation_sorted(Sorted(Indentations(ls, style)))

-----------------------------------------------------------------------------
(* ConfigFile: read_config_file *)

\* str.replace(c, "") for a single character c
RECURSIVE RemoveChar(_, _)
RemoveChar(s, c) ==
    IF Len(s) = 0 THEN ""
    ELSE (IF CharAt(s, 0) = c THEN "" ELSE CharAt(s, 0)) \o RemoveChar(DropFirst(s, 1), c)

\* str.rstrip(chars) and str.strip(chars)
RECURSIVE RStripChars(_, _)
RStripChars(s, chars) ==
    IF Len(s) > 0 /\ CharAt(s, Len(s) - 1) \in chars
    THEN RStripChars(SubSeq(s, 1, Len(s) - 1), chars)
    ELSE s
StripChars(s, chars) == RStripChars(LStripChars(s, chars), chars)

\* str.split(sep), all parts
RECURSIVE SplitOn(_, _)
SplitOn(s, sep) ==
    IF Find(s, sep, 0) < 0 THEN <<s>>
    ELSE <<UpTo(s, sep)>> \o SplitOn(Behind(s, sep), sep)

\* the line of a section after the removal of a run of dashes
undecorated(line) ==
    IF Contains(line, "--------") THEN Strip(RemoveChar(line, "-")) ELSE line

\* new_level and the name of the section
level_of(line, indent) == LeadingSpaces(line) \div indent + 1
new_level(line, indent) == level_of(undecorated(line), indent)
config_section_name(line) ==
    StripChars(StripChars(Strip(undecorated(line)), {"*"}), {":"})

\* current_section.parent: -1 stands for None, 0 for the root; None has no
\* parent, which is -2 here and an AttributeError in the code
parent_of(sections, current) ==
    IF current < 0 THEN -2
    ELSE IF current = 0 THEN -1
    ELSE sections[current].parent

\* level_diff times current_section = current_section.parent
RECURSIVE pop(_, _, _)
pop(sections, current, level_diff) ==
    IF level_diff <= 0 \/ current = -2 THEN current
    ELSE pop(sections, parent_of(sections, current), level_diff - 1)

\* a reader that pops one section too few when the level falls
popped_short(sections, current, level, current_level) ==
    IF level = current_level /\ level > 0 THEN parent_of(sections, current)
    ELSE IF level < current_level THEN pop(sections, current, current_level - level)
    ELSE current

\* the section the new section is created in
popped(sections, current, level, current_level) ==
    IF level = current_level /\ level > 0 THEN parent_of(sections, current)
    ELSE IF level < current_level THEN pop(sections, current, current_level - level + 1)
    ELSE current

ChildNames(sections, parent) ==
    {sections[k].name : k \in {j \in 1..Len(sections) : sections[j].parent = parent}}

\* ConfigFile.parse_value(line, style): the values of a property
config_parse_value(val, style) ==
    IF style = "old"
    THEN IF Contains(val, "|") THEN [list |-> TRUE, values |-> SplitOn(Strip(val), "|")]
         ELSE [list |-> FALSE, values |-> <<Strip(val)>>]
    ELSE IF StartsWith(val, "[") /\ Contains(val, "]")
         THEN [list |-> TRUE, values |-> SplitOn(SubSeq(val, 2, Find(val, "]", 0)), ",")]
    ELSE [list |-> FALSE, values |-> <<Strip(val)>>]

\* ConfigFile.parse_property(line, style): raised is the ValueError of
\* key, val = line.split(': ', 1) on a line without ': '
parse_property(line, style) ==
    IF ~Contains(line, ": ")
    THEN [raised |-> TRUE, key |-> "", value |-> <<>>]
    ELSE [raised |-> FALSE, key |-> Strip(UpTo(line, ": ")),
          value |-> config_parse_value(Strip(Behind(line, ": ")), style)]

\* the state of read_config_file: the tree, current_section, current_level
ConfigState(raised, props, sections, current, level) ==
    [raised |-> raised, props |-> props, sections |-> sections,
     current |-> current, level |-> level]

\* current_section.create_section(name=line); current_level = new_level
section_created(c, at, name, level, line_no) ==
    IF at < 0 \/ name \in ChildNames(c.sections, at)
    THEN [c EXCEPT !.raised = TRUE]
    ELSE ConfigState(FALSE, c.props,
                     Append(c.sections, [name |-> name, parent |-> at, level |-> level,
                                         line |-> line_no, props |-> <<>>]),
                     Len(c.sections) + 1, level)

\* the branch of read_config_file for a line that starts a section
read_section(c, line, line_no, indent) ==
    section_created(c, popped(c.sections, c.current, new_level(line, indent), c.level),
                    config_section_name(line), new_level(line, indent), line_no)

\* current_section.create_property(name=key, values=values)
property_created(c, p) ==
    IF p.raised THEN [c EXCEPT !.raised = TRUE]
    ELSE IF c.current = 0
         THEN IF p.key \in Names(c.props) THEN [c EXCEPT !.raised = TRUE]
              ELSE [c EXCEPT !.props = Append(c.props, [name |-> p.key, value |-> p.value])]
    ELSE IF p.key \in Names(c.sections[c.current].props) THEN [c EXCEPT !.raised = TRUE]
    ELSE [c EXCEPT !.sections[c.current].props =
                       Append(c.sections[c.current].props, [name |-> p.key, value |-> p.value])]

\* the body of the loop of read_config_file
read_config_line(c, line, line_no, indent, format) ==
    IF empty_or_comment(line) THEN c
    ELSE IF config_looks_like_section(line, format) THEN read_section(c, line, line_no, indent)
    ELSE IF config_looks_like_property(line, format)
         THEN property_created(c, parse_property(line, format))
    ELSE c

-----------------------------------------------------------------------------
(* ConfigFile.load as a state machine *)

\* the largest number of lines of a configuration file
MaxConfigLines == 3

\* the lines of a configuration file: sections at several depths, plain
\* and decorated, properties, a blank line
ConfigLines ==
    {"Settings", "*Metadata", "  Recording:", "  Two", "    Cell", "      Six",
     "        Deep", "  name: V-1", "  gain: 1|2", "  pos: [1, 2]", "  key:value",
     "  -------- Cell --------", "*Cell: 1", ""}

ConfigInputs == UNION {[1..n -> ConfigLines] : n \in 1..MaxConfigLines}

\* ConfigFile() and load(filename) of a file that is there or is missing
InitConfig ==
    /\ \/ cf_exists = TRUE /\ lines \in ConfigInputs
       \/ cf_exists = FALSE /\ lines = <<>>
    /\ cf_pc = "load"
    /\ cf_format = "old"
    /\ cf_indent = 0
    /\ cf_i = 0
    /\ cf_props = <<>>
    /\ cf_sections = <<>>
    /\ cf_current = 0
    /\ cf_level = 0
    /\ TableIdle
    /\ RunsIdle
    /\ ScanIdle
    /\ ValueIdle

\* load: the ValueError for a file that does not exist
LoadMissing ==
    /\ cf_pc = "load"
    /\ ~cf_exists
    /\ cf_pc' = "raised"
    /\ UNCHANGED <<cf_exists, cf_format, cf_indent, cf_i, cf_props, cf_sections,
                   cf_current, cf_level>>
    /\ UNCHANGED <<tableVars, runVars, scanVars, valueVars>>

\* load: format = self.guess_file_format(filename)
GuessFileFormat ==
    /\ cf_pc = "load"
    /\ cf_exists
    /\ cf_format' = guess_file_format(lines)
    /\ cf_pc' = "guess_indentation"
    /\ UNCHANGED <<cf_exists, cf_indent, cf_i, cf_props, cf_sections, cf_current,
                   cf_level>>
    /\ UNCHANGED <<tableVars, runVars, scanVars, valueVars>>

\* load: indentation = self.guess_indentation(filename, format)
GuessIndentation ==
    /\ cf_pc = "guess_indentation"
    /\ \E g \in {guess_indentation(lines, cf_format)} :
          IF g.raised
          THEN /\ cf_pc' = "raised"
               /\ UNCHANGED cf_indent
          ELSE /\ cf_pc' = "read"
               /\ cf_indent' = g.indent
    /\ UNCHANGED <<cf_exists, cf_format, cf_i, cf_props, cf_sections, cf_current,
                   cf_level>>
    /\ UNCHANGED <<tableVars, runVars, scanVars, valueVars>>

\* one turn of the loop of read_config_file
ReadConfigLine ==
    /\ cf_pc = "read"
    /\ cf_i < Len(lines)
    /\ \E c \in {read_config_line(ConfigState(FALSE, cf_props, cf_sections,
                                              cf_current, cf_level),
                                  lines[cf_i + 1], cf_i + 1, cf_indent, cf_format)} :
          IF c.raised
          THEN /\ cf_pc' = "raised"
               /\ UNCHANGED <<cf_i, cf_props, cf_sections, cf_current, cf_level>>
          ELSE /\ cf_i' = cf_i + 1
               /\ cf_props' = c.props
               /\ cf_sections' = c.sections
               /\ cf_current' = c.current
               /\ cf_level' = c.level
               /\ UNCHANGED cf_pc
    /\ UNCHANGED <<cf_exists, cf_format, cf_indent>>
    /\ UNCHANGED <<tableVars, runVars, scanVars, valueVars>>

\* the end of the file
ReadConfigDone ==
    /\ cf_pc = "read"
    /\ cf_i = Len(lines)
    /\ cf_pc' = "done"
    /\ UNCHANGED <<cf_exists, cf_format, cf_indent, cf_i, cf_props, cf_sections,
                   cf_current, cf_level>>
    /\ UNCHANGED <<tableVars, runVars, scanVars, valueVars>>

NextConfig ==
    LoadMissing \/ GuessFileFormat \/ GuessIndentation \/ ReadConfigLine \/ ReadConfigDone

SpecConfig == InitConfig /\ [][NextConfig]_vars

-----------------------------------------------------------------------------
(* parse_value as a state machine: a token is parsed, the number of the    *)
(* result is written as text with str(), and that text is parsed           *)

MaxDigits == 2

DigitChars == {"0", "1", "5"}

RECURSIVE DigitTexts(_)
DigitTexts(n) ==
    IF n = 0 THEN {""} ELSE {d \o t : d \in DigitChars, t \in DigitTexts(n - 1)}

\* the texts of the integer pattern and of the decimal pattern
IntegerTexts ==
    {sign \o d : sign \in {"", "+", "-"},
                 d \in UNION {DigitTexts(n) : n \in 1..MaxDigits}}
DecimalTexts ==
    {i \o f : i \in IntegerTexts, f \in {".", ".5", ".25", ".050", ".001"}}

\* texts that are no numbers
OtherTexts == {"", "abc", "-", ".5", "1.2.3", "5m", "1e-05", "V-1"}

ValueInputs ==
    ((IntegerTexts \cup DecimalTexts) \X (Units \cup {""})) \cup (OtherTexts \X {""})

InitValue ==
    /\ \E in \in ValueInputs : vp_token = in[1] /\ vp_unit = in[2]
    /\ vp_pc = "start"
    /\ vp_value = NoValue
    /\ vp_text = ""
    /\ vp_again = NoValue
    /\ lines = <<>>
    /\ TableIdle
    /\ RunsIdle
    /\ ScanIdle
    /\ ConfigIdle

\* str(n) of an int
str_int(n) == IF n < 0 THEN "-" \o IntToText(0 - n) ELSE IntToText(n)

\* the decimals of str(x) of a float of f thousandths: no trailing zeros,
\* one decimal at least
str_decimals(f) ==
    IF f % 100 = 0 THEN Digits[(f \div 100) + 1]
    ELSE IF f % 10 = 0 THEN Digits[(f \div 100) + 1] \o Digits[((f \div 10) % 10) + 1]
    ELSE Digits[(f \div 100) + 1] \o Digits[((f \div 10) % 10) + 1] \o Digits[(f % 10) + 1]

\* str(x) of a float of m thousandths in absolute value; the numbers of the
\* tokens are between 0.0001 and 1e16, where str() writes no exponent
str_float(negative, m) ==
    (IF negative THEN "-" ELSE "") \o IntToText(m \div 1000) \o "." \o str_decimals(m % 1000)

absolute(n) == IF n < 0 THEN 0 - n ELSE n

\* str(value) of the value parse_value returned: int(text) or float(text)
str_value(v) ==
    IF v.kind = "int" THEN str_int(ToInt(v.text).val)
    ELSE str_float(StartsWith(v.text, "-"), absolute(FloatMilli(v.text)))

\* value, unit = parse_value(token)
ParseValue ==
    /\ vp_pc = "start"
    /\ vp_value' = parse_value(vp_token \o vp_unit)
    /\ vp_pc' = "parsed"
    /\ UNCHANGED <<vp_token, vp_unit, vp_text, vp_again>>
    /\ UNCHANGED <<tableVars, runVars, scanVars, configVars>>

\* str(value) of a number
FormatValue ==
    /\ vp_pc = "parsed"
    /\ vp_value.kind \in {"int", "float"}
    /\ vp_text' = str_value(vp_value)
    /\ vp_pc' = "formatted"
    /\ UNCHANGED <<vp_token, vp_unit, vp_value, vp_again>>
    /\ UNCHANGED <<tableVars, runVars, scanVars, configVars>>

\* parse_value(str(value))
ParseText ==
    /\ vp_pc = "formatted"
    /\ vp_again' = parse_value(vp_text)
    /\ vp_pc' = "reparsed"
    /\ UNCHANGED <<vp_token, vp_unit, vp_value, vp_text>>
    /\ UNCHANGED <<tableVars, runVars, scanVars, configVars>>

NextValue == ParseValue \/ FormatValue \/ ParseText

SpecValue == InitValue /\ [][NextValue]_vars

-----------------------------------------------------------------------------
(* Properties of the timeline reconstruction *)

NumRuns == Len(stimuli_runs)
NumOut == Len(repro_starts)

\* run m (from 0) has been through the main pass
Processed(m) == rr_pc \in {"postpass", "done"} \/ (rr_pc = "main" /\ m < rr_i)

\* entry k (from 1) of the output has been through the post-pass
Closed(k) == rr_pc = "done" \/ (rr_pc = "postpass" /\ k <= rr_i)

\* the entries of the output that stem from run m
OutputOf(m) == {k \in 1..Len(repro_metadata) : repro_metadata[k] = m}

\* start and end of the run behind entry k as the main pass computed them
Computed(k) == run_times(stimuli_runs, repro_metadata[k], sample_interval)

BaselineNamed(m) ==
    /\ stimuli_runs[m + 1].name # NoName
    /\ Contains(ToLower(stimuli_runs[m + 1].name), "baselineactivity")

\* the times of the neighbours of run m as the rescue asks for them
Before(m) ==
    IF m = 0 THEN [raised |-> FALSE, start |-> NoTime, end |-> Some(0)]
    ELSE repro_times(stimuli_runs[m], sample_interval)
After(m) ==
    IF m < NumRuns - 1 THEN repro_times(stimuli_runs[m + 2], sample_interval)
    ELSE [raised |-> FALSE, start |-> NoTime, end |-> NoTime]

\* the invalid, baseline-named runs whose neighbours both give a time, and
\* those for which a neighbour is missing or gives None
Rescuable(m) ==
    /\ ~stimuli_runs[m + 1].valid /\ BaselineNamed(m)
    /\ ~Before(m).raised /\ ~After(m).raised
    /\ Before(m).end.some /\ After(m).start.some
Unrescuable(m) ==
    /\ ~stimuli_runs[m + 1].valid /\ BaselineNamed(m)
    /\ ~Before(m).raised /\ ~After(m).raised
    /\ (~Before(m).end.some \/ ~After(m).start.some)

\* the number of runs of the log up to run m (from 0) that carry the name
Occurrences(name, m) ==
    Cardinality({n \in 0..m : stimuli_runs[n + 1].name = name})

\* the number of runs the main pass has counted
Counted ==
    IF rr_pc = "main" THEN rr_i
    ELSE IF rr_pc = "raised" THEN rr_i + 1
    ELSE NumRuns

\* C13: the counter of a name is the number of runs counted so far that
\* carry it, whatever became of them; an emitted run is named after its
\* name and the number of runs of that name up to its place in the log, the
\* names of the emitted runs differ, and the stimuli of a run are filed
\* under the same name
C13_OccurrenceCounter ==
    /\ \A name \in DOMAIN counter : counter[name] = Occurrences(name, Counted - 1)
    /\ \A k \in 1..Len(repro_names) :
          repro_names[k] =
              stimuli_runs[repro_metadata[k] + 1].name \o "_"
                  \o IntToText(Occurrences(stimuli_runs[repro_metadata[k] + 1].name,
                                           repro_metadata[k]))
    /\ \A j, k \in 1..Len(repro_names) : repro_names[j] = repro_names[k] => j = k
    /\ rr_pc = "done" =>
          \A e \in 1..Len(stimuli(stimuli_runs)) :
             \A k \in 1..Len(repro_names) :
                repro_metadata[k] = stimuli(stimuli_runs)[e].run
                    => repro_names[k] = stimuli(stimuli_runs)[e].key

\* the second run of a name is emitted as number 2 after the first one, an
\* invalid run, was dropped
C13_Witness ==
    /\ rr_pc = "done"
    /\ "SAM_2" \in {repro_names[k] : k \in 1..Len(repro_names)}
    /\ "SAM_1" \notin {repro_names[k] : k \in 1..Len(repro_names)}
    /\ \E e \in 1..Len(stimuli(stimuli_runs)) : stimuli(stimuli_runs)[e].key = "SAM_2"

\* C15: a run that is invalid and not named after the baseline recording,
\* the run without a name included, is left out of the output and the pass
\* does not raise at it
C15_InvalidRunDroppedNotFatal ==
    /\ \A m \in 0..(NumRuns - 1) :
          (~stimuli_runs[m + 1].valid /\ ~BaselineNamed(m))
              => \A k \in 1..Len(repro_metadata) : repro_metadata[k] # m
    /\ rr_pc = "raised" => (stimuli_runs[rr_i + 1].valid \/ BaselineNamed(rr_i))

\* C3 as stated: consecutive runs of the returned sequence never overlap
C3_TimelineMonotonic ==
    rr_pc = "done" =>
        \A k \in 1..(NumOut - 1) :
            repro_starts[k] + repro_durations[k] <= repro_starts[k + 1]

\* C3, amended: a run whose computed duration is below one sample interval
\* ends exactly at its successor's start; any other run keeps its computed
\* end, so the pair is ordered if and only if the computed end already was
\* at or before the successor's start
C3_MonotonicWhereClosedOrOrdered ==
    rr_pc = "done" =>
        \A k \in 1..(NumOut - 1) :
            /\ repro_ends[k] = repro_starts[k] + repro_durations[k]
            /\ (Computed(k).end - Computed(k).start < sample_interval)
                  => repro_starts[k] + repro_durations[k] = repro_starts[k + 1]
            /\ (repro_starts[k] + repro_durations[k] <= repro_starts[k + 1])
                  <=> \/ Computed(k).end - Computed(k).start < sample_interval
                      \/ Computed(k).end <= repro_starts[k + 1]

\* a returned sequence with a short run stretched over a gap and with a
\* pair of long runs in order
C3_Witness ==
    /\ rr_pc = "done"
    /\ \E k \in 1..(NumOut - 1) :
          /\ Computed(k).end - Computed(k).start < sample_interval
          /\ Computed(k).end < repro_starts[k + 1]
          /\ repro_starts[k] + repro_durations[k] = repro_starts[k + 1]
    /\ \E k \in 1..(NumOut - 1) :
          /\ Computed(k).end - Computed(k).start >= sample_interval
          /\ repro_starts[k] + repro_durations[k] <= repro_starts[k + 1]

\* C4: the rescue of an invalid baseline-named run between a preceding run
\* that ends at E (0 for the first run) and a following run that starts at S
\* appends the run with start E + 1 s and end S - 1 s if E + 1 s < S - 1 s
\* and drops it otherwise; the post-pass leaves the end alone unless the
\* interval is shorter than one sample interval
C4_RescueInterval ==
    \A m \in 0..(NumRuns - 1) :
        (Processed(m) /\ Rescuable(m)) =>
            LET E == Before(m).end.v
                S == After(m).start.v
            IN  IF E + GuardBand < S - GuardBand
                THEN /\ Cardinality(OutputOf(m)) = 1
                     /\ \A k \in OutputOf(m) :
                           /\ repro_starts[k] = E + GuardBand
                           /\ (~Closed(k) \/ S - E - 2 * GuardBand >= sample_interval)
                                 => /\ repro_ends[k] = S - GuardBand
                                    /\ repro_durations[k] = S - E - 2 * GuardBand
                ELSE OutputOf(m) = {}

\* the scenario of the specification: the run before ends at 10 s, the run
\* after starts at 15 s, the rescued run runs from 11 s to 14 s
C4_Witness ==
    /\ rr_pc = "done"
    /\ \E m \in 0..(NumRuns - 1) :
          /\ Rescuable(m)
          /\ Before(m).end.v = 10000
          /\ After(m).start.v = 15000
          /\ \E k \in OutputOf(m) : repro_starts[k] = 11000 /\ repro_ends[k] = 14000

\* C5: an invalid baseline-named run for which the preceding run gives no
\* end or the following run gives no start (or is missing) is left out of
\* the output, the pass does not raise at it, and the valid runs with times
\* are all in the output of a pass that came to its end
C5_FailedRescueDropsRun ==
    /\ \A m \in 0..(NumRuns - 1) :
          Unrescuable(m) =>
              /\ ~(rr_pc = "raised" /\ rr_i = m)
              /\ OutputOf(m) = {}
    /\ rr_pc \in {"postpass", "done"} =>
          \A m \in 0..(NumRuns - 1) :
              (/\ stimuli_runs[m + 1].valid
               /\ repro_times(stimuli_runs[m + 1], sample_interval).start.some)
                  => OutputOf(m) # {}

\* the pass came to its end after it dropped a baseline run in front of a
\* run without times, and a later run is in the output
C5_Witness ==
    /\ rr_pc = "done"
    /\ \E m \in 0..(NumRuns - 2) :
          /\ Unrescuable(m)
          /\ ~After(m).start.some
          /\ \E n \in (m + 1)..(NumRuns - 1) : OutputOf(n) # {}

\* C6: after the post-pass, an entry other than the last whose computed
\* duration is below one sample interval ends at the start of its successor
\* and lasts from its own start to there; every other entry keeps the
\* computed end and duration
C6_GapClosure ==
    \A k \in 1..NumOut :
        Closed(k) =>
            /\ repro_starts[k] = Computed(k).start
            /\ IF Computed(k).end - Computed(k).start < sample_interval /\ k < NumOut
               THEN /\ repro_ends[k] = repro_starts[k + 1]
                    /\ repro_durations[k] = repro_starts[k + 1] - repro_starts[k]
               ELSE /\ repro_ends[k] = Computed(k).end
                    /\ repro_durations[k] = Computed(k).end - Computed(k).start

\* the scenario of the specification: start 19 s, duration 0.2 s, sample
\* interval 0.5 s, successor at 20 s, duration stretched to 1 s
C6_Witness ==
    /\ rr_pc = "done"
    /\ sample_interval = 500
    /\ \E k \in 1..(NumOut - 1) :
          /\ Computed(k).start = 19000
          /\ Computed(k).end = 19200
          /\ repro_starts[k + 1] = 20000
          /\ repro_durations[k] = 1000

\* C7: the lists of repro_runs have one length, no run is in the output
\* twice, and every tag the writer creates carries the name, the metadata,
\* the start and the duration of one run that has a name
C7_CompleteOrExcluded ==
    /\ Len(repro_names) = NumOut
    /\ Len(repro_metadata) = NumOut
    /\ Len(repro_durations) = NumOut
    /\ Len(repro_ends) = NumOut
    /\ \A j, k \in 1..Len(repro_metadata) : repro_metadata[j] = repro_metadata[k] => j = k
    /\ rr_pc = "done" =>
          /\ Len(repro_tags) = NumOut
          /\ \A k \in 1..Len(repro_tags) :
                /\ stimuli_runs[repro_metadata[k] + 1].name # NoName
                /\ StartsWith(repro_tags[k].name,
                              stimuli_runs[repro_metadata[k] + 1].name \o "_")
                /\ repro_tags[k].metadata = repro_metadata[k]
                /\ repro_tags[k].position = repro_starts[k]
                /\ repro_tags[k].extent = repro_durations[k]

\* the writer got two runs of a log of three, one run was excluded
C7_Witness ==
    /\ rr_pc = "done"
    /\ Len(repro_tags) = 2
    /\ NumRuns = 3

\* the runs the main loop has passed
Passed == IF rr_pc \in {"main", "raised"} THEN rr_i ELSE Len(stimuli_runs)

\* a valid, named run with rows under ordinal 1 and a stimulus group
Timed(rr) ==
    /\ rr.valid /\ rr.name # NoName
    /\ find_column(rr.table, 1) # 0
    /\ Len(rr.table[find_column(rr.table, 1)].data) > 0
    /\ group_by_name(rr.keys, "stimulus") # 0

\* a number, or a text that reads as a number
Numeric(v) == v.kind = "float" \/ IsFloatText(v.text)

\* a value in thousandths, of a number or of a numeric text
Thousandths(v) == IF v.kind = "float" THEN v.milli ELSE FloatMilli(v.text)

\* a duration column's last value in milliseconds: the value itself under
\* the unit "ms", a thousand times the value under any other unit
DeclaredDuration(col) ==
    IF col.type_or_unit = "ms"
    THEN Thousandths(col.data[Len(col.data)]) \div 1000
    ELSE Thousandths(col.data[Len(col.data)])

\* the duration of the first duration column with a numeric last value
RECURSIVE ProbedDuration(_, _, _)
ProbedDuration(t, duration_cols, n) ==
    IF n > Len(duration_cols) THEN 0
    ELSE IF Numeric(t[duration_cols[n]].data[Len(t[duration_cols[n]].data)])
         THEN DeclaredDuration(t[duration_cols[n]])
    ELSE ProbedDuration(t, duration_cols, n + 1)

LastOrdinal(rr) ==
    rr.table[find_column(rr.table, 1)].data[Len(rr.table[find_column(rr.table, 1)].data)]

EndAsDeclared(rr, si, tm) ==
    (~tm.raised /\ tm.end.some) =>
        tm.end.v = (LastOrdinal(rr).milli * si) \div 1000
                     + ProbedDuration(rr.table,
                           columns_by_name(rr.table, group_by_name(rr.keys, "stimulus"),
                                           "duration"), 1)

\* C27: the end of a valid run that is not a baseline run is its last ordinal
\* times the sample interval plus the duration of the first duration column
\* with a numeric value, divided by 1000 exactly under the unit "ms"
C27_DurationByUnit ==
    \A k \in 1..Passed :
        (Timed(stimuli_runs[k]) /\ ~Contains(stimuli_runs[k].name, "BaselineActivity"))
            => EndAsDeclared(stimuli_runs[k], sample_interval,
                             repro_times(stimuli_runs[k], sample_interval))

FirstOrdinal(rr) == rr.table[find_column(rr.table, 1)].data[1]

SignalColumns(rr) == {k \in 1..Len(rr.table) : rr.table[k].name = "signal" /\ rr.table[k].group = group_by_name(rr.keys, "stimulus")}

DelayColumns(rr) == {k \in 1..Len(rr.table) : rr.table[k].name = "delay" /\ rr.table[k].group = group_by_name(rr.keys, "stimulus")}

InitStimulus(rr) == \E k \in SignalColumns(rr) : rr.table[k].data[1].text = "init"

\* the delay to subtract, in milliseconds
InitialDelay(rr) ==
    IF DelayColumns(rr) = {} \/ InitStimulus(rr) THEN 0
    ELSE rr.table[CHOOSE k \in DelayColumns(rr) : \A j \in DelayColumns(rr) : k <= j]
            .data[1].milli \div 1000

StartAsDeclared(rr, si) ==
    (FirstOrdinal(rr).milli * si) \div 1000 - InitialDelay(rr)

\* C28: the start the main loop appends for a valid run with rows is its
\* first ordinal times the sample interval minus the initial delay, which is
\* 0 for an init stimulus and without a delay column
C28_StartTime ==
    [][(/\ rr_pc = "main"
        /\ Timed(stimuli_runs[rr_i + 1])
        /\ Len(repro_starts') = Len(repro_starts) + 1)
          => repro_starts'[Len(repro_starts')]
                = StartAsDeclared(stimuli_runs[rr_i + 1], sample_interval)]_vars

\* three runs were appended: an init stimulus with a delay column that is
\* not 0, a stimulus without a delay column and one with a delay
C28_Witness ==
    /\ rr_pc = "done" /\ Len(stimuli_runs) = 3 /\ Len(repro_starts) = 3
    /\ \A k \in 1..3 : Timed(stimuli_runs[k])
    /\ InitStimulus(stimuli_runs[1])
    /\ \E d \in DelayColumns(stimuli_runs[1]) : stimuli_runs[1].table[d].data[1].milli > 0
    /\ DelayColumns(stimuli_runs[2]) = {}
    /\ ~InitStimulus(stimuli_runs[3]) /\ InitialDelay(stimuli_runs[3]) > 0
    /\ repro_starts[3] = StartAsDeclared(stimuli_runs[3], sample_interval)

-----------------------------------------------------------------------------
(* Properties of the run segmentation *)

\* the lines of the log that are header markers
HeaderMarkers == {k \in 1..Len(lines) : StartsWith(Strip(lines[k]), "#Key")}

\* C8: segmentation stops when the end of the input is reached in the scan
\* for a header marker, so the scan never holds more runs than the log has
\* header markers
C8_RunsBoundedByMarkers == Len(sc_runs) <= Cardinality(HeaderMarkers)

\* C12: a file that does not exist is fatal for both readers: neither
\* ConfigFile.load nor the construction of StimuliDat comes back from it
C12_MissingFileIsFatal ==
    /\ ~sc_exists => sc_pc \in {"start", "raised"}
    /\ ~cf_exists => cf_pc \in {"load", "raised"}

\* C30: every scanned run ends behind the offset it was started at, and the
\* runs of a log follow one another without overlap
C30_RunsAdvance ==
    /\ \A r \in 1..Len(sc_runs) :
          ~sc_runs[r].raised => sc_runs[r].start < sc_runs[r].end
    /\ \A r \in 1..Len(sc_runs) : \A q \in (r + 1)..Len(sc_runs) :
          (~sc_runs[r].raised /\ ~sc_runs[q].raised)
              => sc_runs[r].end <= sc_runs[q].start

\* the values of the properties of a parsed block
ParsedValues(md) ==
    {md.props[n].value : n \in 1..Len(md.props)}
        \cup UNION {{md.sections[k].props[n].value :
                        n \in 1..Len(md.sections[k].props)} :
                       k \in 1..Len(md.sections)}

\* the text of a property line behind the first ": "
RawValue(l) == Strip(Behind(Strip(LStripChars(l, {"#"})), ": "))

\* the lines of the block _parse reads for a run that starts at start
BlockLines(st) ==
    IF st.raised THEN {}
    ELSE {j \in 1..Len(lines) :
            SliceFrom(lines, st.start) < j /\ j <= SliceTo(lines, st.end)}

BlockSplitOnFirstColon(st) ==
    (~st.raised /\ ~Metadata(lines, st.start, st.end).raised) =>
        \A k \in BlockLines(st) :
            (StartsWith(lines[k], "#") /\ ~looks_like_section(lines[k])
                /\ looks_like_property(lines[k]))
                => parse_value(RawValue(lines[k]))
                      \in ParsedValues(Metadata(lines, st.start, st.end))

\* C26: the value of every property line of the block of a scanned run is
\* the whole text behind the first ": " of the line
C26_SplitOnFirstColon ==
    \A r \in 1..Len(sc_runs) :
        ~sc_runs[r].raised
            => BlockSplitOnFirstColon(find_repro_settings(lines, sc_runs[r].start))

\* the rearranged metadata of the run whose settings are at st
rearranged_at(ls, st) == RearrangedMetadata(ls, st.start, st.end)

\* the metadata has come out of the rearrangement with "settings" under
\* "RePro-Info"
has_settings(md) == ~md.raised /\ "settings" \in Names(md.sections)

\* C14: whatever the sections of the metadata block of the run that is
\* scanned next, the rearrangement does not raise and leaves a "RePro-Info"
\* with a section "settings"; the runs already scanned have that section
C14_RearrangementTotal ==
    /\ (sc_pc = "loop" /\ sc_end < Len(lines) - 1
           /\ ~find_repro_settings(lines, sc_end).raised)
          => has_settings(rearranged_at(lines, find_repro_settings(lines, sc_end)))
    /\ \A k \in 1..Len(sc_runs) : "settings" \in Names(sc_runs[k].sections)

-----------------------------------------------------------------------------
(* Properties of the configuration reader *)

\* C11: apart from a missing file and inconsistent indentation nothing
\* makes the reader raise: every line of the file makes a section or a
\* property or is passed over
C11_NoLineShapeIsFatal ==
    cf_pc = "raised" => \/ ~cf_exists
                        \/ guess_indentation(lines, cf_format).raised

\* the leading-space counts of the section lines of the file
Depths ==
    {LeadingSpaces(lines[k]) :
        k \in {j \in 1..Len(lines) : config_looks_like_section(lines[j], cf_format)}}

Shallowest(D) == CHOOSE x \in D : \A y \in D : x <= y
Deepest(D) == CHOOSE x \in D : \A y \in D : y <= x

\* the depths are evenly spaced, d apart
EvenlySpaced(D, d) ==
    D = {Shallowest(D) + n * d : n \in 0..(Cardinality(D) - 1)}

\* the detection of the indentation has run
IndentationGuessed == cf_exists /\ cf_pc \in {"read", "done", "raised"}

\* C16: once the detection has run on a file, the unit is 1 for at most one
\* depth of section lines and the difference of the depths for two; for more
\* than two depths it is their common spacing, and the load has failed
\* without a unit exactly if the depths are not evenly spaced
C16_IndentationUnit ==
    IndentationGuessed =>
        /\ Cardinality(Depths) <= 1 => cf_indent = 1
        /\ Cardinality(Depths) = 2 => cf_indent = Deepest(Depths) - Shallowest(Depths)
        /\ Cardinality(Depths) > 2 =>
              IF \E d \in 1..Deepest(Depths) : EvenlySpaced(Depths, d)
              THEN cf_indent > 0 /\ EvenlySpaced(Depths, cf_indent)
              ELSE cf_pc = "raised" /\ cf_indent = 0

\* the section lines of the file are 4 and 8 deep and the unit is 4
C16_Witness ==
    /\ IndentationGuessed
    /\ Depths = {4, 8}
    /\ cf_indent = 4

\* the property-line test of a style: in the old style a line with ":"
\* that does not begin with "*", in the new style a line "key: value" with
\* a value behind the colon
IsPropertyLine(line, style) ==
    IF style = "old"
    THEN Contains(line, ":") /\ ~StartsWith(Strip(line), "*")
    ELSE /\ Contains(Strip(line), ": ")
         /\ Len(Strip(Behind(Strip(line), ": "))) > 0

\* the line (from 1) has created a section
SectionLine(k) == \E n \in 1..Len(cf_sections) : cf_sections[n].line = k

\* C24: of the lines read that are neither empty nor comments, those that
\* pass the property-line test of the style of the file have created no
\* section and all others have created one
C24_PropertyLineTest ==
    cf_pc \in {"read", "done"} =>
        \A k \in 1..cf_i :
            ~empty_or_comment(lines[k])
                => (IsPropertyLine(lines[k], cf_format) <=> ~SectionLine(k))

\* the elements of a sequence of texts, each trimmed
Trimmed(parts) == [n \in 1..Len(parts) |-> Strip(parts[n])]

\* the values of a raw property value: the trimmed elements of a value with
\* a pipe or in brackets, the value itself otherwise
Exploded(raw) ==
    IF Contains(raw, "|") THEN [list |-> TRUE, values |-> Trimmed(SplitOn(raw, "|"))]
    ELSE IF StartsWith(raw, "[") /\ Contains(raw, "]")
         THEN [list |-> TRUE,
               values |-> Trimmed(SplitOn(SubSeq(raw, 2, Find(raw, "]", 0)), ","))]
    ELSE [list |-> FALSE, values |-> <<raw>>]

\* the properties of the root and of all sections
AllProperties ==
    {cf_props[n] : n \in 1..Len(cf_props)}
        \cup UNION {{cf_sections[k].props[n] : n \in 1..Len(cf_sections[k].props)} :
                       k \in 1..Len(cf_sections)}

\* C25: every property line read has left a property with the key of the
\* line whose values are the trimmed elements of the raw value if that has
\* a pipe or is in brackets, in either style, and the raw value otherwise
C25_ListValuesExploded ==
    cf_pc \in {"read", "done"} =>
        \A k \in 1..cf_i :
            (~empty_or_comment(lines[k]) /\ ~SectionLine(k))
                => \E p \in AllProperties :
                      /\ p.name = Strip(UpTo(lines[k], ": "))
                      /\ p.value = Exploded(Strip(Behind(lines[k], ": ")))

\* the level of the section created before section k, 0 before the first
LevelBefore(k) == IF k = 1 THEN 0 ELSE cf_sections[k - 1].level

\* up to section k no level is more than one above the level before it
WellNested(k) == \A j \in 1..k : cf_sections[j].level <= LevelBefore(j) + 1

\* the sections before section k that are one level above it
OneAbove(k) == {j \in 1..(k - 1) : cf_sections[j].level = cf_sections[k].level - 1}

\* C19: in a file whose section levels never rise by more than one, a
\* section of level 1 is a child of the root and a section of a deeper level
\* is a child of the last section before it that is one level above
C19_ParentIsLastOneAbove ==
    \A k \in 1..Len(cf_sections) :
        WellNested(k) =>
            IF cf_sections[k].level = 1 THEN cf_sections[k].parent = 0
            ELSE /\ OneAbove(k) # {}
                 /\ cf_sections[k].parent \in OneAbove(k)
                 /\ \A j \in OneAbove(k) : j <= cf_sections[k].parent

\* after a section of level 1 and one of level 2 the reader has come back
\* to level 1 and created the third section in the root
C19_Witness ==
    /\ cf_pc = "done"
    /\ Len(cf_sections) = 3
    /\ WellNested(3)
    /\ cf_sections[2].level = 2 /\ cf_sections[2].parent = 1
    /\ cf_sections[3].level = 1 /\ cf_sections[3].parent = 0

\* C20: the level of a section is the number of spaces the line as read
\* begins with, divided by the unit, plus one, for a line with a run of
\* dashes as for any other
C20_LevelFromLeadingSpaces ==
    \A k \in 1..Len(cf_sections) :
        cf_sections[k].level
            = (LeadingSpaces(lines[cf_sections[k].line]) \div cf_indent) + 1

\* the depth of a section below the root, 0 for the root
RECURSIVE DepthBelowRoot(_)
DepthBelowRoot(k) == IF k <= 0 THEN 0 ELSE 1 + DepthBelowRoot(cf_sections[k].parent)

\* the next line of the loop starts a section
SectionNext ==
    /\ cf_i < Len(lines)
    /\ ~empty_or_comment(lines[cf_i + 1])
    /\ config_looks_like_section(lines[cf_i + 1], cf_format)

\* C29: while the file is read the recorded level is the depth of the
\* current section below the root, and the pops for the next section line
\* end at the root or below it
C29_LevelIsDepth ==
    /\ cf_pc \in {"read", "done"} => cf_level = DepthBelowRoot(cf_current)
    /\ (cf_pc \in {"read", "raised"} /\ cf_exists /\ cf_indent > 0 /\ SectionNext)
          => popped(cf_sections, cf_current, new_level(lines[cf_i + 1], cf_indent),
                    cf_level) >= 0

-----------------------------------------------------------------------------
(* Properties of the value parser *)

\* the number of a parsed value in thousandths
NumberOf(kind, text) ==
    IF kind = "int" THEN 1000 * ToInt(text).val ELSE FloatMilli(text)

-----------------------------------------------------------------------------
(* Properties of the table parser *)

\* the number of data rows read_tabledata has consumed so far
RowsRead == end_index - (hdr_end + 1)

\* the n-th field (n from 1) of the r-th data row (r from 1)
DataField(r, n) == Strip(Split2(Strip(lines[hdr_end + 1 + r]))[n])

\* the positions at which the labels of a header row begin: each label is
\* looked for behind the end of the label before it
RECURSIVE LabelStarts(_, _, _)
LabelStarts(line, names, n) ==
    IF n = 0 THEN <<>>
    ELSE Append(LabelStarts(line, names, n - 1),
                Find(line, names[n],
                     IF n = 1 THEN 1
                     ELSE LabelStarts(line, names, n - 1)[n - 1] + Len(names[n - 1])))

StartsOf(line) == LabelStarts(line, HeaderLabels(line), Len(HeaderLabels(line)))

\* the label of a row whose span holds the position: the last one that
\* begins at or before it, 0 if there is none
Holder(starts, pos) ==
    IF \A i \in 1..Len(starts) : starts[i] > pos THEN 0
    ELSE CHOOSE i \in 1..Len(starts) :
            starts[i] <= pos /\ \A j \in 1..Len(starts) : starts[j] <= pos => j <= i

GroupRow == lines[hdr_start + 2]
SubgroupRow == lines[hdr_start + 3]
ColumnNameRow == lines[hdr_start + 4]

\* the subgroup and the group over the i-th label of the column-name row
SubgroupOver(i) == Holder(StartsOf(SubgroupRow), StartsOf(ColumnNameRow)[i])
GroupOver(i) ==
    IF SubgroupOver(i) = 0 THEN 0
    ELSE Holder(StartsOf(GroupRow), StartsOf(SubgroupRow)[SubgroupOver(i)])

\* the columns of the table made for the i-th label of the column-name row
ColumnsOf(i) ==
    {k \in 1..Len(table) : table[k].name = HeaderLabels(ColumnNameRow)[i]}

\* C21: once the header is parsed, every label of the column-name row has
\* one column, in the subgroup and the group whose labels begin last at or
\* before it
C21_ColumnsAttachedOnce ==
    tp_pc \in {"read_tabledata", "row"} =>
        \A i \in 1..Len(HeaderLabels(ColumnNameRow)) :
            /\ Cardinality(ColumnsOf(i)) = 1
            /\ \A k \in ColumnsOf(i) :
                  /\ table[k].group = GroupOver(i)
                  /\ table[k].subgroup = <<GroupOver(i), SubgroupOver(i)>>

\* the value stored for the n-th field of the r-th data row
StoredField(r, n) == table[columns[n]].data[r]

\* the rule for the storage of a field in a column of the sniffed type dt
StoredAsRuled(field, dt, stored) ==
    IF field = "-" \/ field = "" THEN stored = StrValue("-")
    ELSE IF dt = "float" THEN stored.kind = "float" /\ stored.milli = FloatMilli(field)
    ELSE stored = StrValue(field)

\* C22: a stored field that is a dash or empty is the text "-"; any other
\* field is a number in a column sniffed as numeric, negative numbers
\* included, and its text in a column sniffed as text
C22_StorageRule ==
    \A n \in 1..Len(columns) :
        columns[n] # 0 =>
            \A r \in 1..Len(table[columns[n]].data) :
                StoredAsRuled(DataField(r, n), dtypes[n], StoredField(r, n))

\* C23: the type of a column is set by the step that reads the first data
\* row, to the type sniffed from the field of that row, and by no step after
\* it
C23_TypedOnce ==
    [][/\ RowsRead >= 1 => dtypes' = dtypes
       /\ (tp_pc = "row" /\ RowsRead = 0 /\ end_index' = end_index + 1)
             => \A n \in 1..Len(columns) :
                   dtypes'[n] = guess_column_dtype(DataField(1, n))]_vars

\* two data rows are read and a field of the second would be sniffed as
\* another type than its column has
C23_Witness ==
    /\ tp_result = "valid"
    /\ RowsRead = 2
    /\ \E n \in 1..Len(columns) : guess_column_dtype(DataField(2, n)) # dtypes[n]

\* C1: the ordinals of the columns of a table reported valid are exactly
\* 1..N, N the number of columns, and no two columns share an ordinal
C1_OrdinalsContiguous ==
    tp_result = "valid" =>
        /\ {table[k].number : k \in 1..Len(table)} = 1..column_count(table)
        /\ \A j, k \in 1..Len(table) : table[j].number = table[k].number => j = k

\* a valid table of three columns whose ordinal row is not in column order
C1_Witness ==
    /\ tp_result = "valid"
    /\ Len(table) = 3
    /\ table[1].number = 3

\* C2: in a table reported valid every column holds as many values as data
\* rows were consumed, and the r-th value of the column of ordinal n is the
\* conversion of the n-th field of the r-th data row
C2_RowLengthInvariant ==
    tp_result = "valid" =>
        /\ \A k \in 1..Len(table) : Len(table[k].data) = RowsRead
        /\ \A n \in 1..Len(columns) :
              /\ columns[n] # 0
              /\ \A r \in 1..RowsRead :
                    table[columns[n]].data[r]
                        = convert_data(DataField(r, n), dtypes[n]).val

\* a valid table of three columns and two data rows, one with a placeholder
C2_Witness ==
    /\ tp_result = "valid"
    /\ Len(table) = 3
    /\ RowsRead = 2
    /\ \E r \in 1..2 : DataField(r, 2) = "-"

\* C9: a structural header failure never raises: without a marker the table
\* is reported invalid with end_index = -1, and neither find_header nor
\* parse_header ends in an exception
C9_HeaderFailureNeverRaises ==
    /\ ~(tp_result = "raised" /\ tp_pc \in {"find_header", "parse_header"})
    /\ (tp_pc = "done" /\ ScanForKey(lines, SliceFrom(lines, start_index)) < 0)
          => (tp_result = "invalid" /\ end_index = -1)

\* C10: a malformed data row does not abort the parsing: with every ordinal
\* 1..N resolved to a column, the row loop never ends in an exception
C10_MalformedRowDoesNotAbort ==
    ~(/\ tp_result = "raised"
      /\ tp_pc = "row"
      /\ \A n \in 1..Len(columns) : columns[n] # 0)

=============================================================================
